---- MODULE Spec2Model ----
(***************************************************************************)
(* A model of the Quad binary space-partition tree (src/urb/quad.py), its  *)
(* Boundary aggregator (src/urb/boundary.py) and the adjacency graph       *)
(* builder.                                                                *)
(*                                                                         *)
(* The heap of Quad objects is a record of functions over object ids.      *)
(* Every method is an operator from (heap, receiver, arguments) to an      *)
(* outcome [exc, val, h]: the exception the call ends with ("" when it     *)
(* returns), the value it returns, and the heap it leaves behind.  A call  *)
(* that raises keeps the field assignments made before the raise, as the   *)
(* interpreter does.  An unbounded recursion of a property getter is the   *)
(* interpreter's RecursionError.                                           *)
(*                                                                         *)
(* Units: a coordinate, a ratio, a width or a threshold handed to a call   *)
(* is the exact rational <<n, d>>, d > 0, in lowest terms; a coordinate is *)
(* a pair of such numbers counted in quarter units (<<40, 1>> = 10.0), and *)
(* the coordinates the calls below make are floats without a rounding      *)
(* error; a ratio is a pair <<n, d>> standing for n/d.  A length (a float  *)
(* computed with sqrt, the sums and differences of such floats, and the    *)
(* float a length is compared with) is the IEEE-754 double the code holds, *)
(* in quarter units: <<>> is 0.0 and any other double is <<s, e, m>>, its  *)
(* sign s (1 or -1), its exponent e and the 53 binary digits m of its      *)
(* mantissa, most significant first and m[1] = 1, standing for s * m *     *)
(* 2^e.  Every operation on lengths rounds to the nearest double, ties to  *)
(* the even mantissa, as the float operation does; multiplying by 4 shifts *)
(* the exponent only, so a length of the code and the length here have the *)
(* same mantissa.                                                          *)
(***************************************************************************)
EXTENDS Integers, Sequences, FiniteSets, TLC

\* ------------------------------------------------------------------ bounds
\* Number of Quad objects that can be allocated.
MaxQuads == 6
\* Number of calls a client makes in one run.
MaxCalls == 4
\* Boundary objects constructed, and items attached to one Boundary.
MaxBoundaries == 1
MaxItems == 2
\* Nodes a Graph is tried with.
MaxNodes == 2

\* ------------------------------------------------------------------ values
\* Python's None for an object reference.
None == 0
\* Object ids.
QuadIds == 1 .. MaxQuads
\* A corner that is not computed yet (None in the node list).
NoCorner == <<>>
\* node = [None] * 4
NoNode == <<NoCorner, NoCorner, NoCorner, NoCorner>>
\* _id_cache = None
NoId == <<"None">>
\* division = []
NoDivision == <<>>
\* The default division of divide(None): [0.5, 0.5].
DefaultRatios == << <<1, 2>>, <<1, 2>> >>
\* The ratio pairs handed to divide(): [0.5, 0.5] and [0.25, 0.75].
RatioPairs == {DefaultRatios, << <<1, 4>>, <<3, 4>> >>}
\* The thresholds handed to graph(): 0.001.
Thresholds == {<<1, 1000>>}
\* The arguments the calls are tried with: shift(3, 4, 0) and shift(0, 0, 1),
\* the ids '' and 'l', collapse(1.0), and the edges a quad is attached by.
Shifts == {<<12, 16, 0>>, <<0, 0, 4>>}
Ids == {<<>>, <<"l">>}
Widths == {4}
Levels == {0, 1}
\* The values rotation(value) is called with directly: 3 and 5.
Rotations == {3, 5}
EdgeInputs == {0, 1}

\* The nodes, attribute lists and property maps a Graph is tried with.
GraphNodes == 1 .. MaxNodes
NoAttrs == <<"None">>
AttrLists == {<< <<"a", "1">>, <<"b", "2">> >>}
PropertyMaps == {[weight |-> 1, width |-> 1], [weight |-> 2, label |-> 0]}

\* An empty dict.
EmptyDict == <<>>

\* The arithmetic of coordinates and ratios, which has no rounding error on
\* the floats it meets: the rational n/d in lowest terms, and the sum,
\* difference and product of two rationals.
RECURSIVE Gcd(_, _)
Gcd(a, b) == IF b = 0 THEN a ELSE Gcd(b, a % b)
Num(n, d) ==
    LET g == Gcd(IF n < 0 THEN -n ELSE n, d) IN <<n \div g, d \div g>>
Whole(n) == <<n, 1>>
Plus(a, b) == Num(a[1] * b[2] + b[1] * a[2], a[2] * b[2])
Minus(a, b) == Num(a[1] * b[2] - b[1] * a[2], a[2] * b[2])
Times(a, b) == Num(a[1] * b[1], a[2] * b[2])

\* The point (x, y) of whole quarter units.
Point(x, y) == <<Whole(x), Whole(y)>>

\* The corners given to the first root: (0,0),(10,0),(10,10),(0,10).
RootCorners == <<Point(0, 0), Point(40, 0), Point(40, 40), Point(0, 40)>>

VARIABLES
    nq,          \* number of Quad objects constructed so far
    _parent,     \* Quad._parent
    child,       \* Quad.child
    division,    \* Quad.division
    _rotation,   \* Quad._rotation
    node,        \* Quad.node, the corner cache
    _above,      \* Quad._above
    _below,      \* Quad._below
    _id_cache,   \* Quad._id_cache
    boundaries,  \* the Boundary objects constructed so far, each a list of items
    node_neighbors,   \* Graph.node_neighbors: node -> set of nodes
    node_attr,        \* Graph.node_attr: node -> attribute list
    edge_properties,  \* Graph.edge_properties: (u, v) -> property map
    ret,         \* the last call: operation, receiver, argument, outcome
    ncalls       \* number of calls made so far

vars == <<nq, _parent, child, division, _rotation, node, _above, _below, _id_cache,
          boundaries, node_neighbors, node_attr, edge_properties, ret, ncalls>>

\* The heap as one value.
Heap == [nq |-> nq, parent |-> _parent, child |-> child, division |-> division,
         rotation |-> _rotation, node |-> node, above |-> _above,
         below |-> _below, idc |-> _id_cache]

\* The objects constructed so far.
Quads(h) == 1 .. h.nq

\* A call that returns v leaving heap h.
Ok(h, v) == [exc |-> "", val |-> v, h |-> h]
\* A call that ends with exception e leaving heap h.
Raise(h, e) == [exc |-> e, val |-> "None", h |-> h]

\* A call that returned hands its outcome to the statements after it; one
\* that raised ends the caller with the same exception.
Then(r, F(_)) == IF r.exc # "" THEN r ELSE F(r)

\* ------------------------------------------------------------ constructor
\* Quad.__init__(parent): the fields of a fresh object with id h.nq + 1.
Quad(h, p) ==
    LET n == h.nq + 1 IN
    [h EXCEPT !.nq = n,
              !.parent[n] = p,
              !.child[n] = <<>>,
              !.division[n] = NoDivision,
              !.rotation[n] = 0,
              !.node[n] = NoNode,
              !.above[n] = None,
              !.below[n] = None,
              !.idc[n] = NoId]

\* ------------------------------------------------------------- properties
\* Quad.divided
divided(h, q) == Len(h.child[q]) > 0 /\ Len(h.division[q]) > 0

\* Quad.left
left(h, q) == IF divided(h, q) THEN h.child[q][1] ELSE None

\* Quad.right
right(h, q) == IF divided(h, q) THEN h.child[q][2] ELSE None

\* Quad.root
RECURSIVE root(_, _)
root(h, q) == IF h.parent[q] # None THEN root(h, h.parent[q]) ELSE q

\* Quad.position: '' for a root, 'l' / 'r' for a child its parent lists,
\* None for a quad its parent does not list.
position(h, q) ==
    IF h.parent[q] = None THEN ""
    ELSE IF left(h, h.parent[q]) = q THEN "l"
    ELSE IF right(h, h.parent[q]) = q THEN "r"
    ELSE "None"

\* Quad._id: the path from the root, memoised in _id_cache.  Concatenating
\* the parent's id with a position of None is a TypeError.
RECURSIVE _id(_, _)
_id(h, q) ==
    IF h.parent[q] = None THEN Ok(h, <<>>)
    ELSE IF h.idc[q] # NoId THEN Ok(h, h.idc[q])
    ELSE Then(_id(h, h.parent[q]), LAMBDA pid :
            IF position(pid.h, q) = "None" THEN Raise(pid.h, "TypeError")
            ELSE Ok([pid.h EXCEPT !.idc[q] = Append(pid.val, position(pid.h, q))],
                    Append(pid.val, position(pid.h, q))))

\* Quad.by_relative_id: its first statement reads the name `index`, which
\* is bound nowhere, so every call ends with a NameError.
by_relative_id(h, q, id) == Raise(h, "NameError")

\* Quad.by_id
by_id(h, q, id) == by_relative_id(h, root(h, q), id)

\* Quad.above.  For a root whose _above is None, self.root is self, so
\* self.root.above is the same read in the same state: the getter recurses
\* without end.
RECURSIVE above(_, _)
above(h, q) ==
    IF h.above[q] # None /\ h.parent[q] = None THEN Ok(h, h.above[q])
    ELSE IF root(h, q) = q THEN Raise(h, "RecursionError")
    ELSE Then(above(h, root(h, q)), LAMBDA ra :
            IF ra.val = None THEN Ok(h, None)
            ELSE Then(_id(h, q), LAMBDA i :
                 Then(by_id(i.h, ra.val, i.val), LAMBDA r :
                    IF r.val # None THEN by_id(r.h, ra.val, i.val)
                    ELSE Ok(r.h, None))))

\* Quad.below, the mirror image of above.
RECURSIVE below(_, _)
below(h, q) ==
    IF h.below[q] # None /\ h.parent[q] = None THEN Ok(h, h.below[q])
    ELSE IF root(h, q) = q THEN Raise(h, "RecursionError")
    ELSE Then(below(h, root(h, q)), LAMBDA rb :
            IF rb.val = None THEN Ok(h, None)
            ELSE Then(_id(h, q), LAMBDA i :
                 Then(by_id(i.h, rb.val, i.val), LAMBDA r :
                    IF r.val # None THEN by_id(r.h, rb.val, i.val)
                    ELSE Ok(r.h, None))))

\* Whether the stored _below links that the getter hands out from q on come
\* back to a quad already passed.  self.below is then never None along the
\* way, and a method that calls itself on self.below (coordinate, lowest,
\* rotation, coordinate_a, coordinate_b) recurses without end.
RECURSIVE BelowLoops(_, _, _)
BelowLoops(h, q, seen) ==
    IF q \in seen THEN TRUE
    ELSE IF h.below[q] # None /\ h.parent[q] = None
    THEN BelowLoops(h, h.below[q], seen \cup {q})
    ELSE FALSE

\* ------------------------------------------------------------ deserialize
\* setattr(self, key, value)
SetAttr(h, q, key, value) ==
    CASE key = "_parent" -> [h EXCEPT !.parent[q] = value]
      [] key = "child" -> [h EXCEPT !.child[q] = value]
      [] key = "division" -> [h EXCEPT !.division[q] = value]
      [] key = "_rotation" -> [h EXCEPT !.rotation[q] = value]
      [] key = "node" -> [h EXCEPT !.node[q] = value]
      [] key = "_above" -> [h EXCEPT !.above[q] = value]
      [] key = "_below" -> [h EXCEPT !.below[q] = value]
      [] key = "_id_cache" -> [h EXCEPT !.idc[q] = value]

\* Quad._deserialize_recursive: items is the list of (key, value) items of
\* the dict, set one after the other.
RECURSIVE _deserialize_recursive(_, _, _)
_deserialize_recursive(h, q, items) ==
    IF items = <<>> THEN Ok(h, "None")
    ELSE _deserialize_recursive(SetAttr(h, q, Head(items)[1], Head(items)[2]),
                                q, Tail(items))

\* Quad.deserialize(data), data[0] being the dict of the items.
deserialize(h, q, data) == _deserialize_recursive(h, q, data[1])

\* ------------------------------------------------------------- clean_cache
\* The assignments of clean_cache: the corner cache is cleared when the
\* quad has a parent or a below, the id cache always.
ClearCache(h, q, derived) ==
    [h EXCEPT !.node[q] = IF derived THEN NoNode ELSE @,
              !.idc[q] = NoId]

\* Quad.clean_cache
RECURSIVE clean_cache(_, _)
clean_cache(h, q) ==
    Then(IF h.parent[q] # None THEN Ok(h, None) ELSE below(h, q), LAMBDA b :
    Then(IF h.parent[q] # None
         THEN Ok(ClearCache(b.h, q, TRUE), None)
         ELSE above(ClearCache(b.h, q, b.val # None), q), LAMBDA a :
    Then(IF a.val # None THEN clean_cache(a.h, a.val) ELSE Ok(a.h, "True"), LAMBDA up :
        IF ~divided(up.h, q) THEN Ok(up.h, "True")
        ELSE Then(clean_cache(up.h, left(up.h, q)), LAMBDA l :
             Then(clean_cache(l.h, right(l.h, q)), LAMBDA r :
                IF r.h.parent[q] # None
                THEN Ok([r.h EXCEPT !.above[q] = None], "True")
                ELSE Ok(r.h, "True"))))))

\* ------------------------------------------------- structural operations
\* divide(None): the caller passes no ratios.
NoRatios == <<"None">>

\* self.division = ratios, or [0.5, 0.5] when ratios is None.
SetDivision(h, q, ratios) ==
    [h EXCEPT !.division[q] = IF ratios # NoRatios THEN ratios ELSE DefaultRatios]

\* self.child.append(Quad(self))
AppendChild(h, q) ==
    [Quad(h, q) EXCEPT !.child[q] = Append(@, h.nq + 1)]

\* divide() without the test `if self.left is not None: return`: it
\* allocates two more children on every call.
divide_no_guard(h, q, ratios) ==
    Then(clean_cache(SetDivision(h, q, ratios), q), LAMBDA c :
        Ok(AppendChild(AppendChild(c.h, q), q), "True"))

\* Quad.divide
divide(h, q, ratios) ==
    Then(clean_cache(SetDivision(h, q, ratios), q), LAMBDA c :
        IF left(c.h, q) # None THEN Ok(c.h, "None")
        ELSE Ok(AppendChild(AppendChild(c.h, q), q), "True"))

RECURSIVE undivide(_, _)

\* undivide() without the test `if not self.divided: return False`: on a
\* leaf it goes on to self.left.undivide() with self.left None.
undivide_no_guard(h, q) ==
    IF ~divided(h, q) THEN Raise(h, "AttributeError")
    ELSE Then(undivide(h, left(h, q)), LAMBDA l :
         Then(undivide(l.h, right(l.h, q)), LAMBDA r :
         Then(above(r.h, q), LAMBDA a :
         Then(IF a.val # None /\ divided(a.h, a.val)
              THEN divide(a.h, a.val, a.h.division[q])
              ELSE Ok(a.h, "None"), LAMBDA d :
            Ok([d.h EXCEPT !.child[q] = <<>>], "True")))))

\* Quad.undivide
undivide(h, q) ==
    IF ~divided(h, q) THEN Ok(h, "False")
    ELSE Then(undivide(h, left(h, q)), LAMBDA l :
         Then(undivide(l.h, right(l.h, q)), LAMBDA r :
         Then(above(r.h, q), LAMBDA a :
         Then(IF a.val # None /\ divided(a.h, a.val)
              THEN divide(a.h, a.val, a.h.division[q])
              ELSE Ok(a.h, "None"), LAMBDA d :
            Ok([d.h EXCEPT !.child[q] = <<>>], "True")))))

\* Quad.add_above.  `above` is a property without a setter, so the
\* assignment self.root.above = Quad() is an AttributeError; the Quad built
\* for it is referenced by nothing.
add_above(h, q) ==
    Then(above(h, root(h, q)), LAMBDA a :
        IF a.val # None THEN Ok(a.h, "False")
        ELSE Raise(a.h, "AttributeError"))

\* Whether the walk of del_above from q, from a root to the root of the quad
\* its _above names, comes back to a root already passed.  self.root.above
\* is then never None along the way and del_above, which calls itself on
\* it, recurses without end.
RECURSIVE AboveLoops(_, _, _)
AboveLoops(h, q, seen) ==
    IF root(h, q) \in seen THEN TRUE
    ELSE IF h.above[root(h, q)] # None
    THEN AboveLoops(h, h.above[root(h, q)], seen \cup {root(h, q)})
    ELSE FALSE

RECURSIVE del_above(_, _)

\* del_above() that only unhooks its own side: it clears the _above of the
\* root and returns, without the teardown of the storey above, whose _below
\* still names the root.
del_above_unhook(h, q) ==
    Then(above(h, root(h, q)), LAMBDA a :
        IF a.val = None THEN Ok(a.h, "False")
        ELSE Ok([a.h EXCEPT !.above[root(a.h, q)] = None], "True"))

\* Quad.del_above.  The closing assignment self.root.above = None is an
\* AttributeError for the same reason.
del_above(h, q) ==
    Then(above(h, root(h, q)), LAMBDA a :
        IF a.val = None THEN Ok(a.h, "False")
        ELSE IF AboveLoops(a.h, q, {}) THEN Raise(a.h, "RecursionError")
        ELSE Then(del_above(a.h, a.val), LAMBDA d :
             Then(above(d.h, root(d.h, q)), LAMBDA a2 :
             Then(undivide(a2.h, a2.val), LAMBDA u :
                Raise(u.h, "AttributeError")))))

\* rotation(): the caller passes no value.
NoRotation == <<>>

\* Quad.rotation: rot is <<n>> to set the rotation, NoRotation to read it.
RECURSIVE rotation(_, _, _)
rotation(h, q, rot) ==
    Then(IF rot # NoRotation
         THEN clean_cache([h EXCEPT !.rotation[q] = rot[1] % 4], q)
         ELSE Ok(h, "True"), LAMBDA c :
    Then(below(c.h, q), LAMBDA b :
        IF b.val = None THEN Ok(b.h, b.h.rotation[q])
        ELSE IF BelowLoops(b.h, q, {}) THEN Raise(b.h, "RecursionError")
        ELSE rotation(b.h, b.val, NoRotation)))

\* Quad.rotate
rotate(h, q) ==
    Then(rotation(h, q, <<h.rotation[q] + 1>>), LAMBDA r : Ok(r.h, "True"))

\* Quad.unrotate
unrotate(h, q) ==
    Then(rotation(h, q, <<h.rotation[q] - 1>>), LAMBDA r : Ok(r.h, "True"))

\* Quad.swap
swap(h, q) ==
    IF ~divided(h, q) THEN Ok(h, "False")
    ELSE Then(clean_cache([h EXCEPT !.child[q] = <<right(h, q), left(h, q)>>], q),
              LAMBDA c : Ok(c.h, "True"))

\* Quad.parents(parents): the parents appended to the list, nearest first.
RECURSIVE parents(_, _, _)
parents(h, q, acc) ==
    IF h.parent[q] = None THEN acc
    ELSE parents(h, h.parent[q], Append(acc, h.parent[q]))

\* Quad.crossover.  `alien.parents` names the method without calling it, and
\* a `for` over a bound method is a TypeError: with an alien that is not
\* None the call ends there, before the ancestor test, the clones and the
\* exchange of fields are reached.
crossover(h, q, alien) ==
    IF alien = None THEN Ok(h, "False")
    ELSE Raise(h, "TypeError")

\* ---------------------------------------------------------- coordinates
\* The integer 0 that coordinate() starts its result from.
ZeroRes == <<0>>

\* Subscripting a value that is not an (x, y) pair (None, or the integer 0)
\* is a TypeError; an exception of the read itself goes through.
Corner(r) ==
    IF r.exc # "" THEN r
    ELSE IF Len(r.val) = 2 THEN r
    ELSE Raise(r.h, "TypeError")

\* x0 * (1 - tmp) + x1 * tmp for the rationals x0, x1 and tmp, over the
\* common denominator.
Mix(x0, x1, tmp) ==
    Num(x0[1] * (tmp[2] - tmp[1]) * x1[2] + x1[1] * tmp[1] * x0[2],
        x0[2] * x1[2] * tmp[2])

\* The (x, y) that coordinate_a and coordinate_b return.
Interpolate(c0, c1, tmp) ==
    <<Mix(c0[1], c1[1], tmp), Mix(c0[2], c1[2], tmp)>>

RECURSIVE coordinate(_, _, _)
RECURSIVE coordinate_a(_, _)
RECURSIVE coordinate_b(_, _)

\* The branch of coordinate() that derives corner i of a child from its
\* parent p: res stays 0 when the parent does not list the child.
FromParent(h, p, pos, i) ==
    IF pos = "l" THEN
        CASE i = 0 -> coordinate(h, p, 0)
          [] i = 1 -> coordinate_a(h, p)
          [] i = 2 -> coordinate_b(h, p)
          [] i = 3 -> coordinate(h, p, 3)
    ELSE IF pos = "r" THEN
        CASE i = 0 -> coordinate_a(h, p)
          [] i = 1 -> coordinate(h, p, 1)
          [] i = 2 -> coordinate(h, p, 2)
          [] i = 3 -> coordinate_b(h, p)
    ELSE Ok(h, ZeroRes)

\* The part of coordinate() after the rotation is read: the cached corner,
\* the stored corner of a root, or the corner derived from the parent and
\* memoised.
Lookup(h, q, i) ==
    IF h.node[q][i + 1] # NoCorner THEN Ok(h, h.node[q][i + 1])
    ELSE IF h.parent[q] = None THEN Ok(h, h.node[q][i + 1])
    ELSE Then(FromParent(h, h.parent[q], position(h, q), i), LAMBDA res :
            Ok([res.h EXCEPT !.node[q][i + 1] = res.val], res.val))

\* Quad.coordinate
coordinate(h, q, index) ==
    Then(below(h, q), LAMBDA b :
        IF b.val = None
        THEN Then(rotation(b.h, q, NoRotation), LAMBDA r :
                Lookup(r.h, q, (index + r.val) % 4))
        ELSE IF BelowLoops(b.h, q, {}) THEN Raise(b.h, "RecursionError")
        ELSE coordinate(b.h, b.val, index))

\* Quad.coordinate_a: the end of the division line on edge 0-1.
coordinate_a(h, q) ==
    IF ~divided(h, q) THEN Ok(h, NoCorner)
    ELSE Then(below(h, q), LAMBDA b :
        IF b.val # None /\ BelowLoops(b.h, q, {}) THEN Raise(b.h, "RecursionError")
        ELSE IF b.val # None /\ divided(b.h, b.val) THEN coordinate_a(b.h, b.val)
        ELSE Then(Corner(coordinate(b.h, q, 0)), LAMBDA c0 :
             Then(Corner(coordinate(c0.h, q, 1)), LAMBDA c1 :
                Ok(c1.h, Interpolate(c0.val, c1.val, c1.h.division[q][1])))))

\* Quad.coordinate_b: the end of the division line on edge 3-2.
coordinate_b(h, q) ==
    IF ~divided(h, q) THEN Ok(h, NoCorner)
    ELSE Then(below(h, q), LAMBDA b :
        IF b.val # None /\ BelowLoops(b.h, q, {}) THEN Raise(b.h, "RecursionError")
        ELSE IF b.val # None /\ divided(b.h, b.val) THEN coordinate_b(b.h, b.val)
        ELSE Then(Corner(coordinate(b.h, q, 3)), LAMBDA c3 :
             Then(Corner(coordinate(c3.h, q, 2)), LAMBDA c2 :
                Ok(c2.h, Interpolate(c3.val, c2.val, c2.h.division[q][2])))))

\* ------------------------------------------------------------ boundaries
\* The four outer tags, 'abcd'.
OuterTags == <<"a", "b", "c", "d">>

\* Quad.boundary_id: a boundary id is an id string, here a sequence of
\* characters.
RECURSIVE boundary_id(_, _, _)
RECURSIVE boundary_walk(_, _, _)

\* The part of boundary_id() after the rotation is added to the index.
boundary_walk(h, q, i) ==
    IF h.parent[q] = None THEN Ok(h, <<OuterTags[i + 1]>>)
    ELSE IF position(h, q) = "l" /\ i = 1 THEN _id(h, h.parent[q])
    ELSE IF position(h, q) = "r" /\ i = 3 THEN _id(h, h.parent[q])
    ELSE boundary_id(h, h.parent[q], i)

boundary_id(h, q, index) ==
    Then(rotation(h, q, NoRotation), LAMBDA r :
        boundary_walk(r.h, q, (index + r.val) % 4))

\* What leafs and branches return: a bare Quad, a list or a tuple.
AQuad(q) == [kind |-> "quad", q |-> q, items |-> <<>>]
AList(items) == [kind |-> "list", q |-> None, items |-> items]
ATuple(items) == [kind |-> "tuple", q |-> None, items |-> items]

\* Quad.leafs: the quad itself when it is not divided, else the pair of its
\* children's results.
RECURSIVE leafs(_, _)
leafs(h, q) ==
    IF ~divided(h, q) THEN AQuad(q)
    ELSE ATuple(<<leafs(h, left(h, q)), leafs(h, right(h, q))>>)

\* Quad.branches: the quad itself for an undivided root, [] for any other
\* undivided quad, else the triple of the quad and its children's results.
RECURSIVE branches(_, _)
branches(h, q) ==
    IF ~divided(h, q) /\ h.parent[q] = None THEN AQuad(q)
    ELSE IF ~divided(h, q) THEN AList(<<>>)
    ELSE ATuple(<<AQuad(q), branches(h, left(h, q)), branches(h, right(h, q))>>)

\* The keys {branch._id for branch in branches}: an item that is a list or
\* a tuple has no _id.
RECURSIVE branch_ids(_, _, _)
branch_ids(h, items, keys) ==
    IF items = <<>> THEN Ok(h, keys)
    ELSE IF Head(items).kind # "quad" THEN Raise(h, "AttributeError")
    ELSE Then(_id(h, Head(items).q), LAMBDA i :
            branch_ids(i.h, Tail(items), keys \cup {i.val}))

\* The loop of calc_boundaries over the leafs, up to its first attachment:
\* an item that is a tuple has no boundary_id, a boundary id that is no key
\* is a KeyError, and Boundary has no method add_edge (it defines
\* add_edges).
attach_leafs(h, lf, keys) ==
    IF lf.kind = "quad" THEN Raise(h, "TypeError")
    ELSE IF Head(lf.items).kind # "quad" THEN Raise(h, "AttributeError")
    ELSE Then(boundary_id(h, Head(lf.items).q, 0), LAMBDA b :
            IF b.val \notin keys THEN Raise(b.h, "KeyError")
            ELSE Raise(b.h, "AttributeError"))

\* Quad.calc_boundaries.  Iterating self.branches or self.leafs when it is
\* a bare Quad is a TypeError.
calc_boundaries(h, q) ==
    IF branches(h, q).kind = "quad" THEN Raise(h, "TypeError")
    ELSE Then(branch_ids(h, branches(h, q).items, {}), LAMBDA ks :
            attach_leafs(ks.h, leafs(ks.h, q),
                         ks.val \cup {<<"a">>, <<"b">>, <<"c">>, <<"d">>}))

\* Quad.graph: nothing of it runs beyond calc_boundaries, which never
\* returns; were it to return, no Boundary would hold a pair.
graph(h, q, threshold) ==
    Then(calc_boundaries(h, q), LAMBDA b :
        Ok(b.h, [nodes |-> {}, edges |-> {}]))

\* ------------------------------------------- storeys, lengths, copies
\* Quad.lowest
RECURSIVE lowest(_, _)
lowest(h, q) ==
    Then(below(h, q), LAMBDA b :
        IF b.val = None THEN Ok(b.h, q)
        ELSE IF BelowLoops(b.h, q, {}) THEN Raise(b.h, "RecursionError")
        ELSE lowest(b.h, b.val))

\* Quad.by_relative_level.  Neither branch stops at level 0: the walk goes
\* on until a link is None (an AttributeError on None) or until it comes
\* back to a call it has already made, which recurses without end.
RECURSIVE by_relative_level(_, _, _, _)
by_relative_level(h, q, level, calls) ==
    IF <<q, level>> \in calls THEN Raise(h, "RecursionError")
    ELSE IF level < 0
    THEN Then(below(h, q), LAMBDA b :
            IF b.val = None THEN Raise(b.h, "AttributeError")
            ELSE by_relative_level(b.h, b.val, level + 1, calls \cup {<<q, level>>}))
    ELSE Then(above(h, q), LAMBDA a :
            IF a.val = None THEN Raise(a.h, "AttributeError")
            ELSE by_relative_level(a.h, a.val, level - 1, calls \cup {<<q, level>>}))

\* Quad.by_level
by_level(h, q, level) ==
    Then(lowest(h, q), LAMBDA l : by_relative_level(l.h, l.val, level, {}))

\* Quad.shift.  The corners are (x, y) tuples or None, so the first
\* `node[0] += x` of the loop is a TypeError.
shift(h, q, x, y, z) ==
    Then(lowest(h, root(h, q)), LAMBDA l : Raise(l.h, "TypeError"))

\* Quad.clone.  Its first statement subscripts the bound method
\* self.coordinate, a TypeError: nothing is copied and nothing is detached.
clone(h, q) == Raise(h, "TypeError")

\* Quad.clone_above.  Its second statement, clone = root.clone(), ends the
\* call with clone's TypeError, before a link is written.
clone_above(h, q) == clone(h, root(h, q))

\* Quad.swap_above.  A quad with a parent gets the None of a bare return.
\* On a root with a storey above, the first statement past the guards,
\* a = self.clone(), ends the call with clone's TypeError.
swap_above(h, q) ==
    IF h.parent[q] # None THEN Ok(h, "None")
    ELSE Then(above(h, q), LAMBDA a :
            IF a.val = None THEN Ok(a.h, "False") ELSE clone(a.h, q))

\* ---------------------------------------------------------------- lengths
\* The number 0.0.
Zero == <<>>

\* The binary digits a without their leading zeros.
Trim(a) ==
    IF \A i \in DOMAIN a : a[i] = 0 THEN <<>>
    ELSE SubSeq(a, CHOOSE i \in DOMAIN a :
                       a[i] = 1 /\ \A j \in 1 .. i - 1 : a[j] = 0, Len(a))

\* The binary digits of the integer n, 0 <= n < 2^31, most significant first.
Bits(n) == Trim([i \in 1 .. 31 |-> (n \div 2 ^ (31 - i)) % 2])

\* a < b for two numbers given by their digits without leading zeros.
Smaller(a, b) ==
    \/ Len(a) < Len(b)
    \/ /\ Len(a) = Len(b)
       /\ \E i \in DOMAIN a : a[i] < b[i] /\ \A j \in 1 .. i - 1 : a[j] = b[j]

\* The places of a + sg * b before any carry, the last digits first: a digit
\* of a plus sg times the digit of b at the same place.  b is no longer
\* than a, and the sum may be one digit longer.
Places(a, b, sg) ==
    [p \in 1 .. Len(a) + 1 |->
        (IF p <= Len(a) THEN a[Len(a) + 1 - p] ELSE 0)
            + sg * (IF p <= Len(b) THEN b[Len(b) + 1 - p] ELSE 0)]

\* What the places below p carry into the place p, for sg = 1 (a sum, a
\* carry of 1) or sg = -1 (a difference, a borrow of 1): the nearest place
\* below that does not hand a carry on decides, and c, which is 0 or sg,
\* when there is none.
Carry(t, c, sg, p) ==
    IF \/ \E j \in 1 .. p - 1 : /\ t[j] = (3 * sg + 1) \div 2
                                /\ \A k \in j + 1 .. p - 1 : t[k] = (sg + 1) \div 2
       \/ c # 0 /\ \A k \in 1 .. p - 1 : t[k] = (sg + 1) \div 2
    THEN sg ELSE 0

\* The binary digits of the number with the places t and the carry c into
\* the last place, most significant first: those of a + sg * b + c >= 0 for
\* the places of a and b.
AddBits(t, c, sg) ==
    [i \in 1 .. Len(t) |->
        (t[Len(t) + 1 - i] + Carry(t, c, sg, Len(t) + 1 - i)) % 2]

\* The double nearest to s * a * 2^e, ties to the even mantissa; a has no
\* leading zero.
RECURSIVE Rounded(_, _, _)
Rounded(s, e, a) ==
    IF a = <<>> THEN Zero
    ELSE IF Len(a) <= 53
    THEN <<s, e + Len(a) - 53, a \o [i \in 1 .. 53 - Len(a) |-> 0]>>
    ELSE IF a[54] = 1 /\ (a[53] = 1 \/ \E i \in 55 .. Len(a) : a[i] = 1)
    THEN Rounded(s, e + Len(a) - 53,
                 Trim(AddBits(Places(SubSeq(a, 1, 53), <<>>, 1), 1, 1)))
    ELSE <<s, e + Len(a) - 53, SubSeq(a, 1, 53)>>

\* The digits of n / d after a, which stands for the part of the quotient
\* taken so far and leaves the remainder rem; a last digit 1 stands for the
\* digits cut off.
RECURSIVE Quotient(_, _, _, _, _)
Quotient(s, a, rem, d, e) ==
    IF rem = 0 THEN Rounded(s, e, a)
    ELSE IF Len(a) >= 55 THEN Rounded(s, e - 1, Append(a, 1))
    ELSE Quotient(s, Trim(Append(a, (2 * rem) \div d)), (2 * rem) % d, d, e - 1)

\* The float of the rational r.
Rational(r) ==
    IF r[1] = 0 THEN Zero
    ELSE IF r[1] < 0
    THEN Quotient(-1, Bits((-r[1]) \div r[2]), (-r[1]) % r[2], r[2], 0)
    ELSE Quotient(1, Bits(r[1] \div r[2]), r[1] % r[2], r[2], 0)

\* The digits of the square root of the number whose digits are m followed
\* by n, two digits of n making one digit of the root: r is the root of the
\* part taken so far and m what that part leaves over.  A last digit 1
\* stands for the digits cut off.
RECURSIVE SqrtBits(_, _, _)
SqrtBits(n, r, m) ==
    IF n = <<>> THEN Append(r, IF m = <<>> THEN 0 ELSE 1)
    ELSE IF Smaller(Trim(m \o <<n[1], n[2]>>), Trim(r \o <<0, 1>>))
    THEN SqrtBits(Tail(Tail(n)), Append(r, 0), Trim(m \o <<n[1], n[2]>>))
    ELSE SqrtBits(Tail(Tail(n)), Append(r, 1),
                  Trim(AddBits(Places(Trim(m \o <<n[1], n[2]>>),
                                      Trim(r \o <<0, 1>>), -1), 0, -1)))

\* math.sqrt: the float of sqrt(k) / w for the integers k >= 0 and w > 0, w a
\* power of two.  The root is taken to 54 digits of 108.
Root(k, w) ==
    IF k = 0 THEN Zero
    ELSE Rounded(1, (Len(Bits(k)) + 1) \div 2 - 54 - Len(Bits(w)),
                 SqrtBits([i \in 1 .. Len(Bits(k)) % 2 |-> 0] \o Bits(k)
                              \o [i \in 1 .. 108 - 2 * ((Len(Bits(k)) + 1) \div 2)
                                      |-> 0],
                          <<>>, <<>>))

\* The float of sx * a * 2^e + sy * b * 2^e: the smaller of a and b is added
\* to or taken from the larger, whose sign the result has.
Added(sx, a, sy, b, e) ==
    Rounded(IF Smaller(a, b) THEN sy ELSE sx, e,
            Trim(AddBits(Places(IF Smaller(a, b) THEN b ELSE a,
                                IF Smaller(a, b) THEN a ELSE b, sx * sy),
                         0, sx * sy)))

\* a + b, as the float addition gives it: the mantissa of the higher
\* exponent is lengthened to the lower exponent.
Sum(a, b) ==
    IF a = Zero THEN b
    ELSE IF b = Zero THEN a
    ELSE Added(a[1], a[3] \o [i \in 1 .. a[2] - b[2] |-> 0],
               b[1], b[3] \o [i \in 1 .. b[2] - a[2] |-> 0],
               IF a[2] < b[2] THEN a[2] ELSE b[2])

\* a - b, as the float subtraction gives it.
Difference(a, b) ==
    IF b = Zero THEN a ELSE Sum(a, <<-b[1], b[2], b[3]>>)

\* -1, 0 or 1 as a is negative, zero or positive.
Sign(a) == IF a = Zero THEN 0 ELSE a[1]

\* a < b, the comparison of two floats: by sign, then by exponent, then
\* by mantissa.
Less(a, b) ==
    IF Sign(a) # Sign(b) THEN Sign(a) < Sign(b)
    ELSE IF a = Zero THEN FALSE
    ELSE IF a[2] # b[2] THEN (a[2] < b[2]) = (a[1] = 1)
    ELSE IF a[1] = 1 THEN Smaller(a[3], b[3])
    ELSE Smaller(b[3], a[3])

\* sqrt((dx / wx) ** 2 + (dy / wy) ** 2)
Hypot(dx, wx, dy, wy) == Root(dx * dx * wy * wy + dy * dy * wx * wx, wx * wy)

\* math.distance_2d: 0 when a point is None.
distance_2d(a, b) ==
    IF a = NoCorner \/ b = NoCorner THEN Zero
    ELSE Hypot(a[1][1] * b[1][2] - b[1][1] * a[1][2], a[1][2] * b[1][2],
               a[2][1] * b[2][2] - b[2][1] * a[2][2], a[2][2] * b[2][2])

\* Quad.length: distance_2d is 0 when a corner is None; subscripting the
\* integer 0 is a TypeError.
length(h, q, index) ==
    Then(coordinate(h, q, index), LAMBDA c0 :
    Then(coordinate(c0.h, q, index + 1), LAMBDA c1 :
        IF ZeroRes \in {c0.val, c1.val} /\ NoCorner \notin {c0.val, c1.val}
        THEN Raise(c1.h, "TypeError")
        ELSE Ok(c1.h, distance_2d(c0.val, c1.val))))

\* Quad.by_length: the four lengths are read in the order 0..3 and sorted
\* shortest first, ties in that order; the value is the first edge of the
\* sorted list, the only one its caller reads.
RECURSIVE by_length(_, _, _)
by_length(h, q, sizes) ==
    IF Len(sizes) = 4
    THEN Ok(h, CHOOSE i \in 0 .. 3 :
                  \A j \in 0 .. 3 : \/ Less(sizes[i + 1], sizes[j + 1])
                                    \/ (sizes[i + 1] = sizes[j + 1] /\ i <= j))
    ELSE Then(length(h, q, Len(sizes)), LAMBDA l :
            by_length(l.h, q, Append(sizes, l.val)))

\* Quad.length_narrowest
length_narrowest(h, q) ==
    Then(by_length(h, q, <<>>), LAMBDA ids : length(ids.h, q, ids.val))

\* Quad.children: the quad itself when it is not divided, else the triple
\* of the quad and its children's results.
RECURSIVE children(_, _)
children(h, q) ==
    IF ~divided(h, q) THEN AQuad(q)
    ELSE ATuple(<<AQuad(q), children(h, left(h, q)), children(h, right(h, q))>>)

\* Quad._straighten.  points_2line returns {a: a, b: b}, a dict keyed by
\* the two numbers, so line1['a'] is a KeyError once the four corner reads
\* are done.
_straighten(h, q) ==
    Then(coordinate_a(h, q), LAMBDA a1 :
    Then(Corner(coordinate_a(a1.h, q)), LAMBDA a2 :
    Then(coordinate(a2.h, q, 2), LAMBDA c2 :
    Then(coordinate(c2.h, q, 3), LAMBDA c3 :
        IF Len(c2.val) # 2 \/ Len(c3.val) # 2 THEN Raise(c3.h, "TypeError")
        ELSE Raise(c3.h, "KeyError")))))

\* Quad.straighten_root
straighten_root(h, q, reference) ==
    IF ~divided(h, q) \/ h.parent[q] # None THEN Ok(h, "False")
    ELSE Then(coordinate(h, q, reference), LAMBDA c0 :
         Then(coordinate(c0.h, q, 1 + reference), LAMBDA c1 :
            IF Len(c0.val) # 2 \/ Len(c1.val) # 2 THEN Raise(c1.h, "TypeError")
            ELSE _straighten(c1.h, q)))

\* Quad.straghten, the method the class defines for straightening a quad
\* under its parent.  Its guard refuses every quad that has a parent; a
\* divided root passes it and reads self.parent.orientation with parent
\* None, an AttributeError.
straghten(h, q) ==
    IF h.parent[q] # None \/ ~divided(h, q) THEN Ok(h, "False")
    ELSE Raise(h, "AttributeError")

\* q.straighten(), the name straighten_recursive calls: the class defines
\* no attribute of that name, so the call is an AttributeError.
straighten(h, q) == Raise(h, "AttributeError")

\* Quad.straighten_recursive.  Iterating self.children when it is a bare
\* Quad is a TypeError.  Otherwise the first item is the quad itself: with
\* a parent the loop calls c.straighten(), a method Quad does not define
\* (it defines straghten); the second item is a child's result, a leaf
\* with a parent or a tuple, an AttributeError either way.
RECURSIVE straighten_recursive(_, _, _)
straighten_recursive(h, q, reference) ==
    IF children(h, q).kind = "quad" THEN Raise(h, "TypeError")
    ELSE IF h.parent[q] # None THEN straighten(h, q)
    ELSE Then(straighten_root(h, q, reference), LAMBDA s :
         Then(above(s.h, q), LAMBDA a :
         Then(IF a.val # None
              THEN straighten_recursive(a.h, a.val, reference)
              ELSE Ok(a.h, "True"), LAMBDA u :
            Raise(u.h, "AttributeError"))))

\* The branch of collapse() taken when the child `narrow` is too narrow:
\* the other child is cloned and crossed over into the quad.
collapse_into(h, q, wide) ==
    Then(clone(h, wide), LAMBDA tmp :
    Then(undivide(tmp.h, q), LAMBDA u :
    Then(crossover(u.h, q, tmp.val), LAMBDA x :
    Then(straighten_recursive(x.h, q, 0), LAMBDA s :
        Ok(s.h, "True")))))

\* Quad.collapse
collapse(h, q, width) ==
    IF ~divided(h, q) THEN Ok(h, "False")
    ELSE Then(length_narrowest(h, left(h, q)), LAMBDA l :
            IF Less(l.val, Rational(Whole(width)))
            THEN collapse_into(l.h, q, right(l.h, q))
            ELSE Then(length_narrowest(l.h, right(l.h, q)), LAMBDA r :
                    IF Less(r.val, Rational(Whole(width)))
                    THEN collapse_into(r.h, q, left(r.h, q))
                    ELSE Ok(r.h, "False")))

\* -------------------------------------------------------------- Boundary
\* A Boundary is a list of items; an item is a dict.  Dict keys are tagged
\* with their Python type so that a Quad, an int and a str never collide.
KQuad(q) == <<"Quad", q>>
KInt(i) == <<"int", i>>
KStr(s) == <<"str", s>>

\* The item {quad: quad, id_edge: id_edge}: the keys are the VALUES of the
\* two parameters, a Quad object and an int, not the strings 'quad' and
\* 'id_edge'.
EdgeItem(quad, id_edge) ==
    [k \in {KQuad(quad), KInt(id_edge)} |->
        IF k = KQuad(quad) THEN quad ELSE id_edge]

\* Boundary.add_edges: the list with the item appended.
add_edges(b, quad, id_edge) == Append(b, EdgeItem(quad, id_edge))

\* item[key]: a KeyError when the dict has no such key.
GetItem(h, item, key) ==
    IF key \in DOMAIN item THEN Ok(h, item[key]) ELSE Raise(h, "KeyError")

\* Boundary._id: None for an empty list, else the boundary id of the first
\* item's quad on the first item's edge.
Boundary_id(h, b) ==
    IF Len(b) < 1 THEN Ok(h, NoId)
    ELSE Then(GetItem(h, b[1], KStr("quad")), LAMBDA quad :
         Then(GetItem(quad.h, b[1], KStr("id_edge")), LAMBDA id_edge :
            boundary_id(id_edge.h, quad.val, id_edge.val)))

\* An edge that was not found: None.
NoEdge == <<>>

\* Boundary._find_edges: edges is <<edge_a, edge_b>>, each <<n>> or NoEdge.
RECURSIVE _find_edges(_, _, _, _, _)
_find_edges(h, b, quad_a, quad_b, edges) ==
    IF b = <<>> THEN Ok(h, edges)
    ELSE Then(GetItem(h, Head(b), KStr("quad")), LAMBDA qa :
         Then(IF qa.val = quad_a THEN GetItem(qa.h, Head(b), KStr("id_edge"))
              ELSE Ok(qa.h, None), LAMBDA ea :
         Then(GetItem(ea.h, Head(b), KStr("quad")), LAMBDA qb :
         Then(IF qb.val = quad_b THEN GetItem(qb.h, Head(b), KStr("id_edge"))
              ELSE Ok(qb.h, None), LAMBDA eb :
            _find_edges(eb.h, Tail(b), quad_a, quad_b,
                << IF qa.val = quad_a THEN <<ea.val>> ELSE edges[1],
                   IF qb.val = quad_b THEN <<eb.val>> ELSE edges[2] >>)))))

\* The largest of four lengths.
Max4(a, b, c, d) ==
    CHOOSE m \in {a, b, c, d} : \A n \in {a, b, c, d} : ~Less(m, n)

\* The arithmetic that ends overlap(): d is the largest distance between
\* an end of edge a and an end of edge b.
overlap_length(length_a, length_b, d) ==
    IF ~Less(length_b, d) THEN length_a
    ELSE IF ~Less(length_a, d) THEN length_b
    ELSE Difference(Sum(length_a, length_b), d)

\* The part of overlap() that measures the two edges.
overlap_measure(h, quad_a, edge_a, quad_b, edge_b) ==
    Then(length(h, quad_a, edge_a), LAMBDA la :
    Then(length(la.h, quad_b, edge_b), LAMBDA lb :
    Then(coordinate(lb.h, quad_a, edge_a), LAMBDA ca0 :
    Then(coordinate(ca0.h, quad_a, edge_a + 1), LAMBDA ca1 :
    Then(coordinate(ca1.h, quad_b, edge_b), LAMBDA cb0 :
    Then(coordinate(cb0.h, quad_b, edge_b + 1), LAMBDA cb1 :
        IF ZeroRes \in {ca0.val, ca1.val, cb0.val, cb1.val}
        THEN Raise(cb1.h, "TypeError")
        ELSE Ok(cb1.h, overlap_length(la.val, lb.val,
                    Max4(distance_2d(ca0.val, cb0.val), distance_2d(ca0.val, cb1.val),
                         distance_2d(ca1.val, cb0.val), distance_2d(ca1.val, cb1.val))))))))))

\* Boundary.overlap.  It returns 0.0 unless the boundary's id is one of the
\* outer tags.
overlap(h, b, quad_a, quad_b) ==
    Then(_find_edges(h, b, quad_a, quad_b, <<NoEdge, NoEdge>>), LAMBDA e :
        IF e.val[1] = NoEdge \/ e.val[2] = NoEdge THEN Ok(e.h, Zero)
        ELSE Then(Boundary_id(e.h, b), LAMBDA t :
            IF t.val \notin {<<"a">>, <<"b">>, <<"c">>, <<"d">>} THEN Ok(t.h, Zero)
            ELSE Then(Boundary_id(t.h, b), LAMBDA id :
                 Then(boundary_id(id.h, quad_a, e.val[1][1]), LAMBDA ia :
                    IF ia.val # id.val THEN Ok(ia.h, Zero)
                    ELSE Then(boundary_id(ia.h, quad_b, e.val[2][1]), LAMBDA ib :
                        IF ib.val # id.val THEN Ok(ib.h, Zero)
                        ELSE overlap_measure(ib.h, quad_a, e.val[1][1],
                                             quad_b, e.val[2][1]))))))

\* The two loops of pairs: item i against the items j after it.
RECURSIVE pairs_loop(_, _, _, _, _)
pairs_loop(h, b, i, j, acc) ==
    IF i >= Len(b) THEN Ok(h, acc)
    ELSE IF j > Len(b) THEN pairs_loop(h, b, i + 1, i + 2, acc)
    ELSE Then(GetItem(h, b[i], KStr("quad")), LAMBDA qa :
         Then(GetItem(qa.h, b[j], KStr("quad")), LAMBDA qb :
         Then(overlap(qb.h, b, qa.val, qb.val), LAMBDA o :
            pairs_loop(o.h, b, i, j + 1,
                       IF Sign(o.val) > 0 THEN Append(acc, <<qa.val, qb.val>>)
                       ELSE acc))))

\* Boundary.pairs: [] when the boundary has no id or its id is an outer
\* tag.
pairs(h, b) ==
    Then(Boundary_id(h, b), LAMBDA t :
        IF t.val = NoId THEN Ok(t.h, <<>>)
        ELSE Then(Boundary_id(t.h, b), LAMBDA id :
            IF id.val \in {<<"a">>, <<"b">>, <<"c">>, <<"d">>} THEN Ok(id.h, <<>>)
            ELSE pairs_loop(id.h, b, 1, 2, <<>>)))

\* The sort keys of pairs_by_length: the overlap of every pair, in order.
RECURSIVE overlaps_of(_, _, _, _)
overlaps_of(h, b, ps, keys) ==
    IF Len(keys) = Len(ps) THEN Ok(h, keys)
    ELSE Then(overlap(h, b, ps[Len(keys) + 1][1], ps[Len(keys) + 1][2]), LAMBDA o :
            overlaps_of(o.h, b, ps, Append(keys, o.val)))

\* list.sort(key=...): ascending and stable.
RECURSIVE SortedBy(_, _)
SortedBy(ps, keys) ==
    IF ps = <<>> THEN <<>>
    ELSE LET i == CHOOSE i \in DOMAIN ps :
                     \A j \in DOMAIN ps : \/ Less(keys[i], keys[j])
                                          \/ (keys[i] = keys[j] /\ i <= j)
             Rest(s) == [k \in 1 .. Len(s) - 1 |-> IF k < i THEN s[k] ELSE s[k + 1]]
         IN <<ps[i]>> \o SortedBy(Rest(ps), Rest(keys))

\* Boundary.pairs_by_length
pairs_by_length(h, b) ==
    Then(pairs(h, b), LAMBDA ps :
    Then(overlaps_of(ps.h, b, ps.val, <<>>), LAMBDA keys :
        Ok(keys.h, SortedBy(ps.val, keys.val))))

\* One step of the search for the ends that are farthest apart: far and
\* next are <<length, ea, eb>>, and next replaces far when its length is the
\* larger one.
Farther(far, next) == IF Less(far[1], next[1]) THEN next ELSE far

\* The two tests that close the search, on far = <<length, ea, eb>>: an
\* edge that contains the other is replaced, edge_a first, edge_b after it.
\* The value is <<qa, ea, qb, eb>>.
Contained(quad_a, edge_a, quad_b, edge_b, length_a, length_b, far) ==
    IF Less(far[1], length_a)
    THEN <<quad_b, edge_b,
           IF Less(far[1], length_b) THEN quad_a ELSE quad_b, edge_b + 1>>
    ELSE IF Less(far[1], length_b) THEN <<quad_a, edge_a, quad_a, edge_a + 1>>
    ELSE <<quad_a, far[2], quad_b, far[3]>>

\* The choice of the two inner points in coordinates(): the ends that are
\* farthest apart are found among the 4 combinations, then an edge that
\* contains the other is replaced.  The value is <<qa, ea, qb, eb>>.
inner_points(quad_a, edge_a, quad_b, edge_b, length_a, length_b, ca0, ca1, cb0, cb1) ==
    Contained(quad_a, edge_a, quad_b, edge_b, length_a, length_b,
        Farther(Farther(Farther(
            <<distance_2d(ca0, cb0), edge_a + 1, edge_b + 1>>,
            <<distance_2d(ca0, cb1), edge_a + 1, edge_b>>),
            <<distance_2d(ca1, cb0), edge_a, edge_b + 1>>),
            <<distance_2d(ca1, cb1), edge_a, edge_b>>))

\* The part of coordinates() that measures the two edges and reads the two
\* points.  `qa.coordiates` names an attribute no Quad has: AttributeError.
coordinates_measure(h, quad_a, edge_a, quad_b, edge_b) ==
    Then(length(h, quad_a, edge_a), LAMBDA la :
    Then(length(la.h, quad_b, edge_b), LAMBDA lb :
    Then(coordinate(lb.h, quad_a, edge_a), LAMBDA ca0 :
    Then(coordinate(ca0.h, quad_a, edge_a + 1), LAMBDA ca1 :
    Then(coordinate(ca1.h, quad_b, edge_b), LAMBDA cb0 :
    Then(coordinate(cb0.h, quad_b, edge_b + 1), LAMBDA cb1 :
        IF ZeroRes \in {ca0.val, ca1.val, cb0.val, cb1.val}
        THEN Raise(cb1.h, "TypeError")
        ELSE Then(Ok(cb1.h, inner_points(quad_a, edge_a, quad_b, edge_b,
                                         la.val, lb.val,
                                         ca0.val, ca1.val, cb0.val, cb1.val)),
                  LAMBDA p : Raise(p.h, "AttributeError"))))))))

\* Boundary.coordinates
coordinates(h, b, quad_a, quad_b) ==
    Then(_find_edges(h, b, quad_a, quad_b, <<NoEdge, NoEdge>>), LAMBDA e :
        IF e.val[1] = NoEdge \/ e.val[2] = NoEdge THEN Ok(e.h, "None")
        ELSE Then(Boundary_id(e.h, b), LAMBDA id :
             Then(boundary_id(id.h, quad_a, e.val[1][1]), LAMBDA ia :
                IF ia.val # id.val THEN Ok(ia.h, "None")
                ELSE Then(boundary_id(ia.h, quad_b, e.val[2][1]), LAMBDA ib :
                    IF ib.val # id.val THEN Ok(ib.h, "None")
                    ELSE Then(overlap(ib.h, b, quad_a, quad_b), LAMBDA o :
                        IF Sign(o.val) <= 0 THEN Ok(o.h, "None")
                        ELSE coordinates_measure(o.h, quad_a, e.val[1][1],
                                                 quad_b, e.val[2][1]))))))

\* ----------------------------------------------------------------- Graph
\* The fields the base class of Graph starts with: no node, no edge.
graph_init == [node_neighbors |-> EmptyDict, node_attr |-> EmptyDict,
               edge_properties |-> EmptyDict]

\* The Graph object as one value.
TheGraph == [node_neighbors |-> node_neighbors, node_attr |-> node_attr,
             edge_properties |-> edge_properties]

\* d.setdefault(key, value): the dict, with the key added when it is new.
SetDefault(d, key, value) == IF key \in DOMAIN d THEN d ELSE d @@ (key :> value)

\* old.update(new): the keys of new take new's values, the others stay.
Update(old, new) == new @@ old

\* Graph.add_node
add_node(g, n, attrs) ==
    IF n \notin DOMAIN g.node_neighbors
    THEN [g EXCEPT !.node_neighbors = @ @@ (n :> {}),
                   !.node_attr = @ @@ (n :> IF attrs = NoAttrs THEN <<>> ELSE attrs)]
    ELSE g

\* One line of set_edge_properties:
\* self.edge_properties.setdefault(edge, {}).update(properties)
MergeProperties(g, edge, properties) ==
    [g EXCEPT !.edge_properties =
        [e \in DOMAIN SetDefault(@, edge, EmptyDict) |->
            IF e = edge THEN Update(SetDefault(@, edge, EmptyDict)[e], properties)
            ELSE @[e]]]

\* Graph.set_edge_properties
set_edge_properties(g, edge, properties) ==
    IF edge[1] # edge[2]
    THEN MergeProperties(MergeProperties(g, edge, properties),
                         <<edge[2], edge[1]>>, properties)
    ELSE MergeProperties(g, edge, properties)

\* The neighbour links add_edge adds for a new pair.
Link(g, u, v) ==
    [g EXCEPT !.node_neighbors =
        [n \in DOMAIN @ |->
            IF n = u THEN @[n] \cup {v}
            ELSE IF n = v THEN @[n] \cup {u}
            ELSE @[n]]]

\* Graph.add_edge: the properties are set inside the test for a new pair.
add_edge(g, edge, properties) ==
    LET g2 == add_node(add_node(g, edge[1], NoAttrs), edge[2], NoAttrs) IN
    IF edge[2] \notin g2.node_neighbors[edge[1]]
       /\ edge[1] \notin g2.node_neighbors[edge[2]]
    THEN set_edge_properties(Link(g2, edge[1], edge[2]), edge, properties)
    ELSE g2

\* --------------------------------------------------------------- claims
\* Whether q is a root.
IsRoot(h, q) == h.parent[q] = None

\* Whether a is among the parents of q, up to its root.
IsAncestor(h, a, q) == \E i \in DOMAIN parents(h, q, <<>>) : parents(h, q, <<>>)[i] = a

\* C1: every quad has 0 or exactly 2 children, and it is divided if and
\* only if it has exactly two children and a division ratio pair is set.
C1_DividedIffTwoChildren ==
    \A q \in Quads(Heap) :
        /\ Len(child[q]) \in {0, 2}
        /\ divided(Heap, q) <=> (Len(child[q]) = 2 /\ Len(division[q]) = 2)

\* C1 witness: a divide or a swap has returned True on a quad that now is
\* divided with two children.
C1_Witness ==
    /\ ret.op \in {"divide", "swap"}
    /\ ret.exc = ""
    /\ ret.val = "True"
    /\ divided(Heap, ret.q)
    /\ Len(child[ret.q]) = 2

\* C2: for any leaf quad q and any ratio pair, q.divide(ratios) followed by
\* q.undivide() both return, undivide returns True, and q is left not
\* divided with an empty child list.
C2_DivideUndivideRoundTrip ==
    \A q \in Quads(Heap), ratios \in RatioPairs :
        (~divided(Heap, q) /\ Len(child[q]) = 0 /\ nq + 2 <= MaxQuads) =>
            LET d == divide(Heap, q, ratios)
                u == undivide(d.h, q)
            IN
            /\ d.exc = ""
            /\ u.exc = ""
            /\ u.val = "True"
            /\ ~divided(u.h, q)
            /\ u.h.child[q] = <<>>

\* C3: once the root with corners (0,0),(10,0),(10,10),(0,10) and rotation
\* 0 has been divided with [0.5, 0.5], it is divided, coordinate_a is
\* (5,0), coordinate_b is (5,10) and the corners 0..3 of its left child are
\* (0,0),(5,0),(5,10),(0,10).
C3_DivisionLineAndChildCorners ==
    (/\ ret.op = "divide"
     /\ ret.q = 1
     /\ ret.arg = DefaultRatios
     /\ node[1] = RootCorners
     /\ _rotation[1] = 0) =>
        /\ ret.exc = ""
        /\ divided(Heap, 1)
        /\ coordinate_a(Heap, 1).exc = ""
        /\ coordinate_a(Heap, 1).val = Point(20, 0)
        /\ coordinate_b(Heap, 1).exc = ""
        /\ coordinate_b(Heap, 1).val = Point(20, 40)
        /\ \A i \in 0 .. 3 :
              /\ coordinate(Heap, left(Heap, 1), i).exc = ""
              /\ coordinate(Heap, left(Heap, 1), i).val =
                     <<Point(0, 0), Point(20, 0), Point(20, 40), Point(0, 40)>>[i + 1]

\* C4: for any quad q, four calls of q.rotate() return and leave
\* coordinate(i) of q, for every i in 0..3, at the value it had before;
\* the stored rotation is always in 0..3.
C4_RotationCycle ==
    \A q \in Quads(Heap) :
        LET r1 == rotate(Heap, q)
            r2 == rotate(r1.h, q)
            r3 == rotate(r2.h, q)
            r4 == rotate(r3.h, q)
        IN
        /\ _rotation[q] \in 0 .. 3
        /\ r1.exc = "" /\ r2.exc = "" /\ r3.exc = "" /\ r4.exc = ""
        /\ \A i \in 0 .. 3 :
              /\ coordinate(Heap, q, i).exc = ""
              /\ coordinate(r4.h, q, i).exc = ""
              /\ coordinate(r4.h, q, i).val = coordinate(Heap, q, i).val

\* C5: a.crossover(b) returns False when one of a, b is an ancestor of the
\* other.
C5_CrossoverRefusesAncestor ==
    (/\ ret.op = "crossover"
     /\ ret.arg # None
     /\ (IsAncestor(Heap, ret.q, ret.arg) \/ IsAncestor(Heap, ret.arg, ret.q))) =>
        /\ ret.exc = ""
        /\ ret.val = "False"

\* C6: for two distinct quads a, b, neither an ancestor of the other,
\* a.crossover(b) returns True, exchanges the division ratios and the
\* children shape of a and b, and keeps the parent of each.
C6_CrossoverExchanges ==
    [][\A a \in Quads(Heap), b \in Quads(Heap) :
          (/\ ret'.op = "crossover"
           /\ ret'.q = a
           /\ ret'.arg = b
           /\ a # b
           /\ ~IsAncestor(Heap, a, b)
           /\ ~IsAncestor(Heap, b, a)) =>
              /\ ret'.exc = ""
              /\ ret'.val = "True"
              /\ division'[a] = division[b]
              /\ division'[b] = division[a]
              /\ Len(child'[a]) = Len(child[b])
              /\ Len(child'[b]) = Len(child[a])
              /\ _parent'[a] = _parent[a]
              /\ _parent'[b] = _parent[b]]_vars

\* Whether the vertical links of h are mutually consistent: for every root a
\* with an above storey a.above.below is a, and for every root a with a
\* below storey a.below.above is a.
LinksConsistent(h) ==
    \A a \in Quads(h) :
        IsRoot(h, a) =>
            /\ h.above[a] # None =>
                   /\ above(h, a).exc = ""
                   /\ below(h, above(h, a).val).exc = ""
                   /\ below(h, above(h, a).val).val = a
            /\ h.below[a] # None =>
                   /\ below(h, a).exc = ""
                   /\ above(h, below(h, a).val).exc = ""
                   /\ above(h, below(h, a).val).val = a

\* The operations on storeys that C7 names.
StoreyOps ==
    {"add_above", "del_above", "clone_above", "swap_above", "clone", "crossover"}

\* C7: the vertical links stay mutually consistent under add_above,
\* del_above, clone_above, swap_above, clone and crossover: when, before
\* such a call, a.above.below is a for every root a with an above storey and
\* a.below.above is a for every root a with a below storey, the same is so
\* after the call.
C7_VerticalLinksConsistent ==
    [][(ret'.op \in StoreyOps /\ LinksConsistent(Heap))
       => LinksConsistent(Heap')]_vars

\* C7 witness: one of the six operations has been called on a root of a
\* stack of two storeys, a below b, which name each other, and the links of
\* every root are consistent.
C7_Witness ==
    /\ ret.op \in StoreyOps
    /\ LinksConsistent(Heap)
    /\ \E a \in Quads(Heap), b \in Quads(Heap) :
          /\ a # b
          /\ ret.q \in {a, b}
          /\ IsRoot(Heap, a)
          /\ IsRoot(Heap, b)
          /\ _above[a] = b
          /\ _below[b] = a

\* C8: boundary_id(edge) on a root returns the outer tag
\* 'abcd'[(edge + rotation) mod 4]; on a left child whose rotated edge is 1
\* and on a right child whose rotated edge is 3 it returns the parent's id.
C8_BoundaryId ==
    ret.op = "boundary_id" =>
        LET q == ret.q
            i == (ret.arg + _rotation[q]) % 4
        IN
        /\ IsRoot(Heap, q) =>
               /\ ret.exc = ""
               /\ ret.val = <<OuterTags[i + 1]>>
        /\ (~IsRoot(Heap, q) /\ ((position(Heap, q) = "l" /\ i = 1)
                                 \/ (position(Heap, q) = "r" /\ i = 3))) =>
               /\ ret.exc = ""
               /\ _id(Heap, _parent[q]).exc = ""
               /\ ret.val = _id(Heap, _parent[q]).val

\* The quads of the subtree of q.
RECURSIVE Subtree(_, _)
Subtree(h, q) ==
    IF ~divided(h, q) THEN {q}
    ELSE {q} \cup Subtree(h, left(h, q)) \cup Subtree(h, right(h, q))

\* C9: calc_boundaries() returns a mapping whose keys are the ids of the
\* branches and the four outer tags, with every leaf attached once per
\* edge (4 attachments per leaf).
C9_CalcBoundaries ==
    ret.op = "calc_boundaries" =>
        LET tree == Subtree(Heap, ret.q)
            leaves == {q \in tree : ~divided(Heap, q)}
            branchQuads == {q \in tree : divided(Heap, q)}
        IN
        /\ ret.exc = ""
        /\ ret.val.keys = {_id(Heap, q).val : q \in branchQuads}
                              \cup {<<"a">>, <<"b">>, <<"c">>, <<"d">>}
        /\ ret.val.attachments = leaves \X (0 .. 3)

\* C10: for the root with corners (0,0),(10,0),(10,10),(0,10) divided once
\* with [0.5, 0.5], graph(0.001) returns a graph with exactly one edge, of
\* width 10.
C10_GraphOfTwoLeaves ==
    (/\ ret.op = "graph"
     /\ ret.q = 1
     /\ node[1] = RootCorners
     /\ division[1] = DefaultRatios) =>
        /\ ret.exc = ""
        /\ Cardinality(ret.val.edges) = 1
        /\ \A e \in ret.val.edges : e.width = Rational(Whole(40))

\* C11: graph(threshold) returns a graph none of whose edges has a width
\* below the threshold (widths in quarter units, the threshold a fraction
\* of a unit).
C11_GraphEdgesAtLeastThreshold ==
    ret.op = "graph" =>
        /\ ret.exc = ""
        /\ \A e \in ret.val.edges :
              ~Less(e.width, Rational(Num(4 * ret.arg[1], ret.arg[2])))

\* The quads attached to the Boundary b.
Attached(b) == {q \in QuadIds : \E i \in DOMAIN b : KQuad(q) \in DOMAIN b[i]}

\* C12: for every Boundary and every two quads a, b attached to it,
\* overlap(a, b) and overlap(b, a) return the same number.
C12_OverlapSymmetric ==
    \A b \in DOMAIN boundaries :
        \A qa \in Attached(boundaries[b]), qb \in Attached(boundaries[b]) :
            /\ overlap(Heap, boundaries[b], qa, qb).exc = ""
            /\ overlap(Heap, boundaries[b], qb, qa).exc = ""
            /\ overlap(Heap, boundaries[b], qa, qb).val
                   = overlap(Heap, boundaries[b], qb, qa).val

\* C13: pairs and pairs_by_length return a list in which every pair
\* consists of two quads attached to the Boundary whose overlap is positive.
C13_PairsOverlapPositive ==
    ret.op \in {"pairs", "pairs_by_length"} =>
        /\ ret.exc = ""
        /\ \A i \in DOMAIN ret.val :
              /\ ret.val[i][1] \in Attached(boundaries[ret.arg])
              /\ ret.val[i][2] \in Attached(boundaries[ret.arg])
              /\ overlap(Heap, boundaries[ret.arg], ret.val[i][1], ret.val[i][2]).exc = ""
              /\ Sign(overlap(Heap, boundaries[ret.arg],
                              ret.val[i][1], ret.val[i][2]).val) > 0

\* The lowest-storey root of the stack that q's tree belongs to, by the
\* stored links; where the links below form a loop, the root at which the
\* walk meets a quad it has seen.
RECURSIVE LowestFrom(_, _, _)
LowestFrom(h, q, seen) ==
    IF q \in seen THEN q
    ELSE IF h.parent[q] # None THEN LowestFrom(h, root(h, q), seen \cup {q})
    ELSE IF h.below[q] # None THEN LowestFrom(h, h.below[q], seen \cup {q})
    ELSE q

LowestRoot(h, q) == LowestFrom(h, q, {})

\* C14: shift(x, y, z) on any quad returns True, translates each of the 4
\* stored corners of the lowest-storey root by (x, y), and leaves every
\* quad's rotation and division ratios unchanged.
C14_ShiftTranslates ==
    [][ret'.op = "shift" =>
          /\ ret'.exc = ""
          /\ ret'.val = "True"
          /\ \A i \in 1 .. 4 :
                node'[LowestRoot(Heap, ret'.q)][i] =
                    << Plus(node[LowestRoot(Heap, ret'.q)][i][1],
                            Whole(ret'.arg[1])),
                       Plus(node[LowestRoot(Heap, ret'.q)][i][2],
                            Whole(ret'.arg[2])) >>
          /\ _rotation' = _rotation
          /\ division' = division]_vars

\* C15: undivide() on a quad that is not divided returns False and changes
\* no field of any quad.
C15_UndivideLeafRefused ==
    [][(ret'.op = "undivide" /\ ~divided(Heap, ret'.q)) =>
          /\ ret'.exc = ""
          /\ ret'.val = "False"
          /\ UNCHANGED <<nq, _parent, child, division, _rotation, node,
                         _above, _below, _id_cache, boundaries>>]_vars

\* C15 witness: undivide() has returned False on a leaf that has a parent.
C15_Witness ==
    /\ ret.op = "undivide"
    /\ ret.exc = ""
    /\ ret.val = "False"
    /\ ~divided(Heap, ret.q)
    /\ _parent[ret.q] # None

\* C16: divide() without ratios on a quad that is already divided is
\* refused (it returns False, or the None of a bare return), allocates
\* nothing and changes no state: the quad keeps its division ratios and
\* its two children.
C16_DivideDividedRefused ==
    [][(ret'.op = "divide" /\ ret'.arg = NoRatios /\ divided(Heap, ret'.q)) =>
          /\ ret'.exc = ""
          /\ ret'.val \in {"False", "None"}
          /\ nq' = nq
          /\ child' = child
          /\ division' = division]_vars

\* C17: add_above() on a tree whose root has an above returns False and
\* leaves the vertical links unchanged; on a tree whose root has none it
\* returns True and links a fresh root n with root.above = n and
\* n.below = root.
C17_AddAbove ==
    [][ret'.op = "add_above" =>
          /\ ret'.exc = ""
          /\ IF _above[root(Heap, ret'.q)] # None
             THEN /\ ret'.val = "False"
                  /\ _above' = _above
                  /\ _below' = _below
             ELSE /\ ret'.val = "True"
                  /\ nq' = nq + 1
                  /\ _parent'[nq'] = None
                  /\ _above'[root(Heap, ret'.q)] = nq'
                  /\ _below'[nq'] = root(Heap, ret'.q)]_vars

\* The operations C18 names.
CoreOps ==
    {"divide", "undivide", "rotate", "unrotate", "swap", "add_above", "del_above",
     "clone", "crossover", "collapse", "straighten_root", "straighten_recursive",
     "shift", "by_id", "calc_boundaries", "graph"}

\* C18: no call of an operation of the core ends with an exception.
C18_NoOperationRaises ==
    ret.op \in CoreOps => ret.exc = ""

\* C19: q.clone() returns a fresh quad that has no parent, no below and no
\* above, and whose coordinate(i) is, for every i in 0..3, what
\* q.coordinate(i) was before the call.
C19_CloneDetachedCopy ==
    [][ret'.op = "clone" =>
          /\ ret'.exc = ""
          /\ ret'.val \in (nq + 1) .. nq'
          /\ _parent'[ret'.val] = None
          /\ _below'[ret'.val] = None
          /\ _above'[ret'.val] = None
          /\ \A i \in 0 .. 3 :
                /\ coordinate(Heap, ret'.q, i).exc = ""
                /\ coordinate(Heap', ret'.val, i).exc = ""
                /\ coordinate(Heap', ret'.val, i).val = coordinate(Heap, ret'.q, i).val]_vars

\* C20: q.clone() on a quad q with a parent p returns and leaves p without
\* children, q's sibling undivided and the lowest root of the tree
\* without an above.
C20_CloneDetachesSource ==
    [][(ret'.op = "clone" /\ _parent[ret'.q] # None) =>
          /\ ret'.exc = ""
          /\ child'[_parent[ret'.q]] = <<>>
          /\ \A c \in QuadIds :
                (c # ret'.q /\ _parent[c] = _parent[ret'.q]) => child'[c] = <<>>
          /\ _above'[LowestRoot(Heap, ret'.q)] = None]_vars

\* C21: Graph.add_edge((u, v), properties) called for a pair that is already
\* connected, in either order, merges the new properties into the existing
\* property map (old keys not in the new map are kept, keys of the new map take
\* the new value), adds no second edge, and the merged map is seen under both
\* (u, v) and (v, u).
C21_AddEdgeMerges ==
    [][(/\ ret'.op = "add_edge"
        /\ ret'.arg[1] \in DOMAIN node_neighbors
        /\ ret'.arg[2] \in node_neighbors[ret'.arg[1]])
       => /\ node_neighbors' = node_neighbors
          /\ edge_properties'[<<ret'.arg[1], ret'.arg[2]>>]
                = Update(edge_properties[<<ret'.arg[1], ret'.arg[2]>>], ret'.arg[3])
          /\ edge_properties'[<<ret'.arg[2], ret'.arg[1]>>]
                = Update(edge_properties[<<ret'.arg[1], ret'.arg[2]>>], ret'.arg[3])
          /\ DOMAIN edge_properties' = DOMAIN edge_properties]_vars

\* The path the claims give a quad: empty for a root, the parent's path
\* followed by the quad's current position otherwise.
RECURSIVE Path(_, _)
Path(h, q) ==
    IF IsRoot(h, q) THEN <<>>
    ELSE Append(Path(h, h.parent[q]), position(h, q))

\* Whether every link from q up to its root is one the parent lists: q is a
\* root, or the current left or right child of a quad that is so itself.
RECURSIVE InTree(_, _)
InTree(h, q) ==
    \/ IsRoot(h, q)
    \/ /\ position(h, q) \in {"l", "r"}
       /\ InTree(h, h.parent[q])

\* Whether in h the id of every quad of a tree is its path from the root
\* and the ids of two quads of one tree differ.
IdsArePaths(h) ==
    \A q \in Quads(h) :
        InTree(h, q) =>
            /\ _id(h, q).exc = ""
            /\ _id(h, q).val = Path(h, q)
            /\ \A p \in Quads(h) \ {q} :
                  (InTree(h, p) /\ root(h, p) = root(h, q))
                  => _id(h, p).val # _id(h, q).val

\* C22: divide, undivide and swap keep the id of every quad of a tree equal
\* to its path from the root ("" for the root, the parent's id followed by
\* 'l' for a current left child and by 'r' for a current right child) and
\* the ids of one tree distinct: when that is so before such a call it is so
\* after it, so that a cached id is never stale (after p.swap() the id of the
\* former left child ends in 'r').
C22_IdIsPath ==
    [][(ret'.op \in {"divide", "undivide", "swap"} /\ IdsArePaths(Heap))
       => IdsArePaths(Heap')]_vars

\* C23: by_id(q._id), called on any quad of q's tree, returns q itself, and
\* by_id of a string that addresses no quad of the tree returns None.
C23_ByIdRoundTrip ==
    [][ret'.op = "by_id"
       => /\ ret'.exc = ""
          /\ \A p \in Quads(Heap) :
                (/\ root(Heap, p) = root(Heap, ret'.q)
                 /\ _id(Heap, p).exc = ""
                 /\ _id(Heap, p).val = ret'.arg)
                => ret'.val = p
          /\ (\A p \in Quads(Heap) :
                root(Heap, p) = root(Heap, ret'.q) => Path(Heap, p) # ret'.arg)
             => ret'.val = "None"]_vars

\* The heap with the corner cache of every quad that has a parent or a
\* storey below emptied: only the corners given to a lowest-storey root stay.
Uncached(h) ==
    [h EXCEPT !.node = [q \in DOMAIN @ |->
        IF IsRoot(h, q) /\ h.below[q] = None THEN @[q] ELSE NoNode]]

\* C24: after any sequence of structural mutations interleaved with
\* coordinate reads, a coordinate(i) read returns the corner that the
\* derivation computes from scratch from the current root corners, rotations
\* and division ratios, and every corner held in a quad's corner cache
\* equals that derivation too.
C24_CacheCoherent ==
    [][ret'.op = "coordinate"
       => /\ ret'.exc = ""
          /\ ret'.val = coordinate(Uncached(Heap'), ret'.q, ret'.arg).val
          /\ \A q \in Quads(Heap'), i \in 0 .. 3 :
                node'[q][i + 1] # NoCorner
                => Lookup(Uncached(Heap'), q, i).val = node'[q][i + 1]]_vars

\* Whether the root q stands on a storey below it: q and its _below are two
\* roots that name each other.
OnStorey(h, q) ==
    /\ IsRoot(h, q)
    /\ h.below[q] # None
    /\ h.below[q] # q
    /\ IsRoot(h, h.below[q])
    /\ h.above[h.below[q]] = q

\* C25: rotation is a property of the lowest-storey root, read through by
\* the storeys above it: rotate() (or unrotate()) on a root that has a below
\* storey returns, and the rotation reported by rotation() for that storey
\* and for the lowest storey of its stack moves by +1 (or -1) mod 4.
C25_RotationCascades ==
    [][(ret'.op \in {"rotate", "unrotate"} /\ OnStorey(Heap, ret'.q))
       => /\ ret'.exc = ""
          /\ \A s \in {ret'.q, LowestRoot(Heap, ret'.q)} :
                /\ rotation(Heap', s, NoRotation).exc = ""
                /\ rotation(Heap', s, NoRotation).val
                     = (_rotation[LowestRoot(Heap, ret'.q)]
                        + (IF ret'.op = "rotate" THEN 1 ELSE 3)) % 4]_vars

\* What the read `op` with argument arg gives on quad q.
Read(h, q, op, arg) ==
    IF op = "coordinate" THEN coordinate(h, q, arg)
    ELSE IF op = "coordinate_a" THEN coordinate_a(h, q)
    ELSE coordinate_b(h, q)

\* C26: storeys coincide in plan: for a root q that has a below
\* counterpart, q.coordinate(i) returns what q.below.coordinate(i) returns,
\* and q.coordinate_a and q.coordinate_b return those of a divided below
\* counterpart, whatever q's own corners, rotation and ratios are.
C26_StoreysCoincide ==
    [][(/\ ret'.op \in {"coordinate", "coordinate_a", "coordinate_b"}
        /\ OnStorey(Heap, ret'.q)
        /\ (ret'.op = "coordinate" \/ divided(Heap, _below[ret'.q])))
       => /\ ret'.exc = ""
          /\ ret'.val = Read(Heap, _below[ret'.q], ret'.op, ret'.arg).val]_vars

\* C27: undivide() on a divided quad q undivides all of q's descendants,
\* re-applies q's ratios to q's above counterpart when that exists and is
\* divided (it stays divided, with q's ratios), discards both of q's
\* children and returns True.
C27_UndivideDivided ==
    [][(ret'.op = "undivide" /\ divided(Heap, ret'.q))
       => /\ ret'.exc = ""
          /\ ret'.val = "True"
          /\ child'[ret'.q] = <<>>
          /\ \A d \in Subtree(Heap, ret'.q) : ~divided(Heap', d)
          /\ (/\ above(Heap, ret'.q).exc = ""
              /\ above(Heap, ret'.q).val # None
              /\ divided(Heap, above(Heap, ret'.q).val))
             => /\ divided(Heap', above(Heap, ret'.q).val)
                /\ division'[above(Heap, ret'.q).val] = division[ret'.q]]_vars

\* The edge number under which quad q was last attached to the Boundary b.
AttachedEdge(b, q) ==
    LET i == CHOOSE i \in DOMAIN b :
                 /\ KQuad(q) \in DOMAIN b[i]
                 /\ \A j \in DOMAIN b : KQuad(q) \in DOMAIN b[j] => j <= i
    IN CHOOSE e \in EdgeInputs : KInt(e) \in DOMAIN b[i]

\* The largest of the 4 distances between an end of edge ea of quad a and an
\* end of edge eb of quad b.
Span(h, a, ea, b, eb) ==
    Max4(distance_2d(coordinate(h, a, ea).val, coordinate(h, b, eb).val),
         distance_2d(coordinate(h, a, ea).val, coordinate(h, b, eb + 1).val),
         distance_2d(coordinate(h, a, ea + 1).val, coordinate(h, b, eb).val),
         distance_2d(coordinate(h, a, ea + 1).val, coordinate(h, b, eb + 1).val))

\* The length of wall two edges of lengths la and lb share when the largest
\* distance between their ends is span.
SharedWall(la, lb, span) ==
    IF ~Less(la, span) \/ ~Less(lb, span) THEN (IF ~Less(lb, la) THEN la ELSE lb)
    ELSE Difference(Sum(la, lb), span)

\* C28: overlap(a, b) returns a number: 0 when a or b is not attached to the
\* Boundary or its boundary_id for the recorded edge differs from the
\* Boundary's id, and else the length of wall the two edges share: the
\* shorter edge's length when the span is at most one of the edge lengths,
\* lenA + lenB - span otherwise.
C28_OverlapSharedWall ==
    [][ret'.op = "overlap"
       => LET b == boundaries[ret'.arg[1]]
              qa == ret'.q
              qb == ret'.arg[2]
          IN /\ ret'.exc = ""
             /\ (qa \notin Attached(b) \/ qb \notin Attached(b)) => ret'.val = Zero
             /\ (qa \in Attached(b) /\ qb \in Attached(b))
                => IF \/ boundary_id(Heap, qa, AttachedEdge(b, qa)).val
                            # Boundary_id(Heap, b).val
                      \/ boundary_id(Heap, qb, AttachedEdge(b, qb)).val
                            # Boundary_id(Heap, b).val
                   THEN ret'.val = Zero
                   ELSE ret'.val
                          = SharedWall(length(Heap, qa, AttachedEdge(b, qa)).val,
                                       length(Heap, qb, AttachedEdge(b, qb)).val,
                                       Span(Heap, qa, AttachedEdge(b, qa),
                                            qb, AttachedEdge(b, qb)))]_vars

\* C29: on a Boundary with two or more attached quads, pairs and
\* pairs_by_length return a list in which every unordered pair of distinct
\* attached quads whose overlap is positive appears exactly once, and the
\* list of pairs_by_length is in ascending order of overlap.
C29_PairsEnumerateAll ==
    (/\ ret.op \in {"pairs", "pairs_by_length"}
     /\ Cardinality(Attached(boundaries[ret.arg])) >= 2)
    => /\ ret.exc = ""
       /\ \A qa \in Attached(boundaries[ret.arg]) :
            \A qb \in Attached(boundaries[ret.arg]) \ {qa} :
               (/\ overlap(Heap, boundaries[ret.arg], qa, qb).exc = ""
                /\ Sign(overlap(Heap, boundaries[ret.arg], qa, qb).val) > 0)
               => Cardinality({i \in DOMAIN ret.val :
                                  {ret.val[i][1], ret.val[i][2]} = {qa, qb}}) = 1
       /\ ret.op = "pairs_by_length"
          => \A i \in DOMAIN ret.val : \A j \in DOMAIN ret.val :
                i < j => ~Less(overlap(Heap, boundaries[ret.arg],
                                       ret.val[j][1], ret.val[j][2]).val,
                               overlap(Heap, boundaries[ret.arg],
                                       ret.val[i][1], ret.val[i][2]).val)

\* Whether point p lies on the segment from c0 to c1.
OnEdge(p, c0, c1) ==
    /\ Times(Minus(p[1], c0[1]), Minus(c1[2], c0[2]))
         = Times(Minus(p[2], c0[2]), Minus(c1[1], c0[1]))
    /\ Times(Minus(p[1], c0[1]), Minus(p[1], c1[1]))[1] <= 0
    /\ Times(Minus(p[2], c0[2]), Minus(p[2], c1[2]))[1] <= 0

\* C30: coordinates(a, b) returns, whenever overlap(a, b) > 0, two points
\* that both lie on a's attached edge and on b's attached edge and whose
\* distance equals overlap(a, b); it returns None when a or b is not
\* attached, a boundary id disagrees, or the overlap is not positive.
C30_CoordinatesMatchOverlap ==
    [][ret'.op = "coordinates"
       => LET b == boundaries[ret'.arg[1]]
              qa == ret'.q
              qb == ret'.arg[2]
          IN /\ ret'.exc = ""
             /\ overlap(Heap, b, qa, qb).exc = ""
             /\ IF Sign(overlap(Heap, b, qa, qb).val) > 0
                THEN /\ distance_2d(ret'.val[1], ret'.val[2])
                           = overlap(Heap, b, qa, qb).val
                     /\ \A i \in 1 .. 2 :
                          /\ OnEdge(ret'.val[i],
                                    coordinate(Heap, qa, AttachedEdge(b, qa)).val,
                                    coordinate(Heap, qa, AttachedEdge(b, qa) + 1).val)
                          /\ OnEdge(ret'.val[i],
                                    coordinate(Heap, qb, AttachedEdge(b, qb)).val,
                                    coordinate(Heap, qb, AttachedEdge(b, qb) + 1).val)
                ELSE ret'.val = "None"]_vars

\* The child of the divided quad q that collapse(width) keeps: the right
\* one when the left one's narrowest edge is below width, the left one when
\* the right one's is, None when neither is.
Wider(h, q, width) ==
    IF Less(length_narrowest(h, left(h, q)).val, Rational(Whole(width)))
    THEN right(h, q)
    ELSE IF Less(length_narrowest(h, right(h, q)).val, Rational(Whole(width)))
    THEN left(h, q)
    ELSE None

\* C31: collapse(width) returns.  On a leaf, or on a divided quad neither of
\* whose children has its narrowest edge below width, it returns False and
\* changes nothing; on a divided quad with such a child it returns True, the
\* quad takes the division ratios and the subtree shape of the other child,
\* and keeps its own parent.
C31_Collapse ==
    [][ret'.op = "collapse"
       => /\ ret'.exc = ""
          /\ ~divided(Heap, ret'.q)
             => /\ ret'.val = "False"
                /\ UNCHANGED <<nq, _parent, child, division, _rotation, node,
                               _above, _below, _id_cache>>
          /\ divided(Heap, ret'.q)
             => /\ length_narrowest(Heap, left(Heap, ret'.q)).exc = ""
                /\ length_narrowest(Heap, right(Heap, ret'.q)).exc = ""
                /\ IF Wider(Heap, ret'.q, ret'.arg) = None
                   THEN /\ ret'.val = "False"
                        /\ UNCHANGED <<nq, _parent, child, division, _rotation>>
                   ELSE /\ ret'.val = "True"
                        /\ _parent'[ret'.q] = _parent[ret'.q]
                        /\ division'[ret'.q] = division[Wider(Heap, ret'.q, ret'.arg)]
                        /\ Len(child'[ret'.q])
                             = Len(child[Wider(Heap, ret'.q, ret'.arg)])]_vars

\* C32: straighten() and straighten_root(reference) return; either True,
\* with the second division ratio set strictly between 0 and 1, or False
\* with no field of any quad changed; the first division ratio, the
\* children and the rotation are never changed.
C32_StraightenTrueOrUntouched ==
    [][ret'.op \in {"straighten", "straighten_root"}
       => /\ ret'.exc = ""
          /\ \/ /\ ret'.val = "True"
                /\ 0 < division'[ret'.q][2][1]
                /\ division'[ret'.q][2][1] < division'[ret'.q][2][2]
                /\ division'[ret'.q][1] = division[ret'.q][1]
             \/ /\ ret'.val = "False"
                /\ UNCHANGED <<nq, _parent, child, division, _rotation, node,
                               _above, _below, _id_cache>>
          /\ child' = child
          /\ _rotation' = _rotation]_vars

\* The direction of the division line of the divided quad q, from its end
\* on edge 0-1 to its end on edge 3-2.
DivisionLine(h, q) ==
    << Minus(coordinate_b(h, q).val[1], coordinate_a(h, q).val[1]),
       Minus(coordinate_b(h, q).val[2], coordinate_a(h, q).val[2]) >>

\* Whether the division line of q is parallel to its parent's when q's
\* rotation is 0 or 2, and perpendicular to it when it is 1 or 3.
Aligned(h, q) ==
    /\ coordinate_a(h, q).exc = ""
    /\ coordinate_b(h, q).exc = ""
    /\ coordinate_a(h, h.parent[q]).exc = ""
    /\ coordinate_b(h, h.parent[q]).exc = ""
    /\ IF h.rotation[q] \in {0, 2}
       THEN Times(DivisionLine(h, q)[1], DivisionLine(h, h.parent[q])[2])
              = Times(DivisionLine(h, q)[2], DivisionLine(h, h.parent[q])[1])
       ELSE Plus(Times(DivisionLine(h, q)[1], DivisionLine(h, h.parent[q])[1]),
                 Times(DivisionLine(h, q)[2], DivisionLine(h, h.parent[q])[2]))
              = Whole(0)

\* C33: straighten() on a divided quad that has a parent returns, and when
\* it returns True the quad's division line is parallel to its parent's
\* (rotation 0 or 2) or perpendicular to it (rotation 1 or 3);
\* straighten_recursive, which applies straighten to the quads that have a
\* parent and straighten_root to the root, returns True.
C33_StraightenAligns ==
    [][/\ ret'.op = "straighten_recursive"
          => /\ ret'.exc = ""
             /\ ret'.val = "True"
       /\ (/\ ret'.op \in {"straighten", "straghten"}
           /\ divided(Heap, ret'.q)
           /\ ~IsRoot(Heap, ret'.q))
          => /\ ret'.exc = ""
             /\ ret'.val = "True" => Aligned(Heap', ret'.q)]_vars

\* C34: swap_above() on a root returns.  With no storey above, it returns
\* False and changes nothing; with a storey u above, it returns True, the
\* root's level holds u's former subdivision, the level directly above holds
\* the root's former subdivision, and the above and below links of the
\* stack are mutually consistent.
C34_SwapAbove ==
    [][(ret'.op = "swap_above" /\ IsRoot(Heap, ret'.q))
       => /\ ret'.exc = ""
          /\ IF _above[ret'.q] = None
             THEN /\ ret'.val = "False"
                  /\ UNCHANGED <<nq, _parent, child, division, _rotation, node,
                                 _above, _below, _id_cache>>
             ELSE /\ ret'.val = "True"
                  /\ _above'[ret'.q] # None
                  /\ division'[ret'.q] = division[_above[ret'.q]]
                  /\ division'[_above'[ret'.q]] = division[ret'.q]
                  /\ \A s \in Quads(Heap') :
                        /\ _above'[s] # None => _below'[_above'[s]] = s
                        /\ _below'[s] # None => _above'[_below'[s]] = s]_vars

\* The root n storeys above the root q, by the stored links; None when the
\* stack ends before.
RECURSIVE StoreyAbove(_, _, _)
StoreyAbove(h, q, n) ==
    IF n = 0 \/ q = None THEN q ELSE StoreyAbove(h, h.above[q], n - 1)

\* C35: by_level(n), called on any quad of a stack that has at least n
\* storeys above its lowest one (n >= 0), returns the root that is n storeys
\* above the lowest storey; by_level(0) returns the lowest-storey root.
C35_ByLevel ==
    [][(/\ ret'.op = "by_level"
        /\ ret'.arg >= 0
        /\ StoreyAbove(Heap, LowestRoot(Heap, ret'.q), ret'.arg) # None)
       => /\ ret'.exc = ""
          /\ ret'.val = StoreyAbove(Heap, LowestRoot(Heap, ret'.q), ret'.arg)]_vars

\* The quads in what leafs, branches or children returned.
RECURSIVE QuadsIn(_)
QuadsIn(x) ==
    IF x.kind = "quad" THEN {x.q}
    ELSE UNION {QuadsIn(x.items[i]) : i \in DOMAIN x.items}

\* C36: for every quad, leafs holds exactly the quads of its subtree that
\* are not divided and branches exactly those that are divided, so no quad
\* is in both; and calc_boundaries on an undivided root returns, with only
\* the four outer Boundaries.
C36_LeafsBranchesPartition ==
    /\ \A q \in Quads(Heap) :
          /\ QuadsIn(leafs(Heap, q)) = {d \in Subtree(Heap, q) : ~divided(Heap, d)}
          /\ QuadsIn(branches(Heap, q)) = {d \in Subtree(Heap, q) : divided(Heap, d)}
          /\ QuadsIn(leafs(Heap, q)) \cap QuadsIn(branches(Heap, q)) = {}
    /\ (/\ ret.op = "calc_boundaries"
        /\ IsRoot(Heap, ret.q)
        /\ ~divided(Heap, ret.q))
       => /\ ret.exc = ""
          /\ ret.val.keys = {<<"a">>, <<"b">>, <<"c">>, <<"d">>}

\* C37: reading the above or below link of a quad returns, and returns None
\* on a root that has no such link; no call of any operation (divide,
\* add_above, coordinate and the others that read these links) ends in
\* unbounded recursion.
C37_LinksTerminate ==
    /\ ret.exc # "RecursionError"
    /\ ret.op \in {"above", "below"}
       => /\ ret.exc = ""
          /\ (/\ IsRoot(Heap, ret.q)
              /\ (IF ret.op = "above" THEN _above[ret.q] ELSE _below[ret.q]) = None)
             => ret.val = None

\* C38: boundary_id(edge) returns, and the boundary ids of the other three
\* edges of the same quad can be read and all differ from it: the four
\* edges of a quad have four pairwise distinct boundary ids.
C38_BoundaryIdsDistinct ==
    ret.op = "boundary_id"
    => /\ ret.exc = ""
       /\ \A j \in (0 .. 3) \ {ret.arg} :
             /\ boundary_id(Heap, ret.q, j).exc = ""
             /\ boundary_id(Heap, ret.q, j).val # ret.val

\* C39: overlap(a, b) returns a number that is not negative, for every
\* Boundary and every two quads.
C39_OverlapNotNegative ==
    ret.op = "overlap"
    => /\ ret.exc = ""
       /\ Sign(ret.val) >= 0

\* ------------------------------------------------------------ state machine
Init ==
    /\ nq = 1
    /\ _parent = [q \in QuadIds |-> None]
    /\ child = [q \in QuadIds |-> <<>>]
    /\ division = [q \in QuadIds |-> NoDivision]
    /\ _rotation = [q \in QuadIds |-> 0]
    /\ node = [q \in QuadIds |-> IF q = 1 THEN RootCorners ELSE NoNode]
    /\ _above = [q \in QuadIds |-> None]
    /\ _below = [q \in QuadIds |-> None]
    /\ _id_cache = [q \in QuadIds |-> NoId]
    /\ boundaries = <<>>
    /\ node_neighbors = graph_init.node_neighbors
    /\ node_attr = graph_init.node_attr
    /\ edge_properties = graph_init.edge_properties
    /\ ret = [op |-> "init", q |-> None, arg |-> "None", exc |-> "", val |-> "None"]
    /\ ncalls = 0

\* The heap after a call, and the record of the call.
Call(op, q, arg, r) ==
    /\ ncalls < MaxCalls
    /\ ncalls' = ncalls + 1
    /\ nq' = r.h.nq
    /\ _parent' = r.h.parent
    /\ child' = r.h.child
    /\ division' = r.h.division
    /\ _rotation' = r.h.rotation
    /\ node' = r.h.node
    /\ _above' = r.h.above
    /\ _below' = r.h.below
    /\ _id_cache' = r.h.idc
    /\ boundaries' = boundaries
    /\ UNCHANGED <<node_neighbors, node_attr, edge_properties>>
    /\ ret' = [op |-> op, q |-> q, arg |-> arg, exc |-> r.exc, val |-> r.val]

\* Quad(parent): a client constructs a quad, a root or one naming a parent.
NewQuad ==
    \E p \in {None} \cup Quads(Heap) :
        /\ nq < MaxQuads
        /\ Call("Quad", nq + 1, p, Ok(Quad(Heap, p), "None"))

\* q.divide(ratios), with ratios a pair or None.
Divide ==
    \E q \in Quads(Heap), ratios \in RatioPairs \cup {NoRatios} :
        LET r == divide(Heap, q, ratios) IN
        /\ r.h.nq <= MaxQuads
        /\ Call("divide", q, ratios, r)

\* q.undivide()
Undivide ==
    \E q \in Quads(Heap) : Call("undivide", q, "None", undivide(Heap, q))

\* q.swap()
Swap ==
    \E q \in Quads(Heap) : Call("swap", q, "None", swap(Heap, q))

\* q.rotate()
Rotate ==
    \E q \in Quads(Heap) : Call("rotate", q, "None", rotate(Heap, q))

\* q.unrotate()
Unrotate ==
    \E q \in Quads(Heap) : Call("unrotate", q, "None", unrotate(Heap, q))

\* q.rotation(value), and q.rotation() with no value.
Rotation ==
    \E q \in Quads(Heap), rot \in {NoRotation} \cup {<<v>> : v \in Rotations} :
        Call("rotation", q, rot, rotation(Heap, q, rot))

\* q.deserialize([{key: value}]) with one item: _rotation 1, _parent None,
\* _below the first quad or the quad constructed last, or _above the quad
\* constructed last, on a quad constructed before it (a client stacks the
\* storeys in the order it makes them).
Deserialize ==
    \E q \in Quads(Heap),
       item \in {<<"_rotation", 1>>, <<"_parent", None>>, <<"_below", nq>>,
                 <<"_below", 1>>, <<"_above", nq>>} :
        /\ item[1] = "_above" => q < nq
        /\ Call("deserialize", q, item, deserialize(Heap, q, << <<item>> >>))

\* q.clean_cache(), called by a client.
CleanCache ==
    \E q \in Quads(Heap) :
        Call("clean_cache", q, "None", clean_cache(Heap, q))

\* q.add_above()
AddAbove ==
    \E q \in Quads(Heap) : Call("add_above", q, "None", add_above(Heap, q))

\* q.del_above()
DelAbove ==
    \E q \in Quads(Heap) : Call("del_above", q, "None", del_above(Heap, q))

\* a.crossover(b), with b a quad or None.
Crossover ==
    \E q \in Quads(Heap), alien \in {None} \cup Quads(Heap) :
        Call("crossover", q, alien, crossover(Heap, q, alien))

\* q.coordinate(index)
Coordinate ==
    \E q \in Quads(Heap), index \in 0 .. 3 :
        Call("coordinate", q, index, coordinate(Heap, q, index))

\* q.coordinate_a
CoordinateA ==
    \E q \in Quads(Heap) : Call("coordinate_a", q, "None", coordinate_a(Heap, q))

\* q.coordinate_b
CoordinateB ==
    \E q \in Quads(Heap) : Call("coordinate_b", q, "None", coordinate_b(Heap, q))

\* q.boundary_id(edge)
BoundaryId ==
    \E q \in Quads(Heap), edge \in 0 .. 3 :
        Call("boundary_id", q, edge, boundary_id(Heap, q, edge))

\* q.calc_boundaries()
CalcBoundaries ==
    \E q \in Quads(Heap) :
        Call("calc_boundaries", q, "None", calc_boundaries(Heap, q))

\* q.graph(threshold)
Graph ==
    \E q \in Quads(Heap), threshold \in Thresholds :
        Call("graph", q, threshold, graph(Heap, q, threshold))

\* q.shift(x, y, z), in quarter units.
Shift ==
    \E q \in Quads(Heap), d \in Shifts :
        Call("shift", q, d, shift(Heap, q, d[1], d[2], d[3]))

\* q.clone()
Clone ==
    \E q \in Quads(Heap) : Call("clone", q, "None", clone(Heap, q))

\* q._id
Id ==
    \E q \in Quads(Heap) : Call("_id", q, "None", _id(Heap, q))

\* q.by_id(id)
ById ==
    \E q \in Quads(Heap), id \in Ids : Call("by_id", q, id, by_id(Heap, q, id))

\* q.collapse(width), in quarter units.
Collapse ==
    \E q \in Quads(Heap), width \in Widths :
        Call("collapse", q, width, collapse(Heap, q, width))

\* q.straighten_root(reference)
StraightenRoot ==
    \E q \in Quads(Heap), reference \in 0 .. 3 :
        Call("straighten_root", q, reference, straighten_root(Heap, q, reference))

\* q.clone_above()
CloneAbove ==
    \E q \in Quads(Heap) : Call("clone_above", q, "None", clone_above(Heap, q))

\* q._id, read by a client between two calls; the read fills the id cache
\* and is not counted as a call.
ReadId ==
    \E q \in Quads(Heap) :
        /\ _id_cache' = _id(Heap, q).h.idc
        /\ ret' = [op |-> "_id", q |-> q, arg |-> "None",
                   exc |-> _id(Heap, q).exc, val |-> _id(Heap, q).val]
        /\ UNCHANGED <<nq, _parent, child, division, _rotation, node, _above, _below,
                       boundaries, node_neighbors, node_attr, edge_properties, ncalls>>

\* q.swap_above()
SwapAbove ==
    \E q \in Quads(Heap) : Call("swap_above", q, "None", swap_above(Heap, q))

\* q.by_level(level)
ByLevel ==
    \E q \in Quads(Heap), level \in Levels :
        Call("by_level", q, level, by_level(Heap, q, level))

\* q.above
Above ==
    \E q \in Quads(Heap) : Call("above", q, "None", above(Heap, q))

\* q.below
Below ==
    \E q \in Quads(Heap) : Call("below", q, "None", below(Heap, q))

\* q.straghten()
Straghten ==
    \E q \in Quads(Heap) : Call("straghten", q, "None", straghten(Heap, q))

\* q.straighten()
Straighten ==
    \E q \in Quads(Heap) : Call("straighten", q, "None", straighten(Heap, q))

\* q.straighten_recursive(reference)
StraightenRecursive ==
    \E q \in Quads(Heap), reference \in 0 .. 3 :
        Call("straighten_recursive", q, reference,
             straighten_recursive(Heap, q, reference))

\* Boundary(): a client constructs an empty Boundary.
NewBoundary ==
    /\ Len(boundaries) < MaxBoundaries
    /\ boundaries' = Append(boundaries, <<>>)
    /\ ret' = [op |-> "Boundary", q |-> None, arg |-> Len(boundaries) + 1,
               exc |-> "", val |-> "None"]
    /\ UNCHANGED <<nq, _parent, child, division, _rotation, node, _above, _below,
                   _id_cache, node_neighbors, node_attr, edge_properties, ncalls>>

\* b.add_edges(quad, id_edge)
AddEdges ==
    \E b \in DOMAIN boundaries, q \in Quads(Heap), id_edge \in EdgeInputs :
        /\ Len(boundaries[b]) < MaxItems
        /\ boundaries' = [boundaries EXCEPT ![b] = add_edges(@, q, id_edge)]
        /\ ret' = [op |-> "add_edges", q |-> q, arg |-> <<b, id_edge>>,
                   exc |-> "", val |-> "None"]
        /\ UNCHANGED <<nq, _parent, child, division, _rotation, node, _above, _below,
                       _id_cache, node_neighbors, node_attr, edge_properties, ncalls>>

\* b.overlap(quad_a, quad_b)
Overlap ==
    \E b \in DOMAIN boundaries, quad_a \in Quads(Heap), quad_b \in Quads(Heap) :
        Call("overlap", quad_a, <<b, quad_b>>,
             overlap(Heap, boundaries[b], quad_a, quad_b))

\* b.coordinates(quad_a, quad_b)
Coordinates ==
    \E b \in DOMAIN boundaries, quad_a \in Quads(Heap), quad_b \in Quads(Heap) :
        Call("coordinates", quad_a, <<b, quad_b>>,
             coordinates(Heap, boundaries[b], quad_a, quad_b))

\* b.pairs
Pairs ==
    \E b \in DOMAIN boundaries : Call("pairs", None, b, pairs(Heap, boundaries[b]))

\* b.pairs_by_length
PairsByLength ==
    \E b \in DOMAIN boundaries :
        Call("pairs_by_length", None, b, pairs_by_length(Heap, boundaries[b]))

\* A call on the Graph that leaves it as g.
GraphCall(op, arg, g) ==
    /\ node_neighbors' = g.node_neighbors
    /\ node_attr' = g.node_attr
    /\ edge_properties' = g.edge_properties
    /\ ret' = [op |-> op, q |-> None, arg |-> arg, exc |-> "", val |-> "None"]
    /\ UNCHANGED <<nq, _parent, child, division, _rotation, node, _above, _below,
                   _id_cache, boundaries, ncalls>>

\* g.add_node(node, attrs), with attrs a list or None.
GraphAddNode ==
    \E n \in GraphNodes, attrs \in AttrLists \cup {NoAttrs} :
        GraphCall("add_node", <<n, attrs>>, add_node(TheGraph, n, attrs))

\* g.add_edge((u, v), properties)
GraphAddEdge ==
    \E u \in GraphNodes, v \in GraphNodes, properties \in PropertyMaps :
        GraphCall("add_edge", <<u, v, properties>>,
                  add_edge(TheGraph, <<u, v>>, properties))

\* g.set_edge_properties((u, v), properties)
GraphSetEdgeProperties ==
    \E u \in GraphNodes, v \in GraphNodes, properties \in PropertyMaps :
        GraphCall("set_edge_properties", <<u, v, properties>>,
                  set_edge_properties(TheGraph, <<u, v>>, properties))

\* A client of Quad: the tree operations, the coordinate and boundary
\* reads, direct rotation(value) and clean_cache calls and deserialize.
Next ==
    \/ NewQuad
    \/ Divide
    \/ Undivide
    \/ Swap
    \/ Rotate
    \/ Unrotate
    \/ AddAbove
    \/ DelAbove
    \/ Crossover
    \/ Coordinate
    \/ CoordinateA
    \/ CoordinateB
    \/ BoundaryId
    \/ CalcBoundaries
    \/ Graph
    \/ Rotation
    \/ Deserialize
    \/ CleanCache

Spec == Init /\ [][Next]_vars

\* The calls that build and reshape one tree: constructors, divide,
\* undivide, swap, rotate, unrotate, add_above and del_above.
TreeNext ==
    \/ NewQuad
    \/ Divide
    \/ Undivide
    \/ Swap
    \/ Rotate
    \/ Unrotate
    \/ AddAbove
    \/ DelAbove

TreeSpec == Init /\ [][TreeNext]_vars

\* The operations of the core that change or copy a tree, without the
\* coordinate reads.
CoreNext ==
    \/ NewQuad
    \/ Divide
    \/ Undivide
    \/ Swap
    \/ Rotate
    \/ Unrotate
    \/ AddAbove
    \/ DelAbove
    \/ SwapAbove
    \/ Above
    \/ Below
    \/ Crossover
    \/ Shift
    \/ Clone
    \/ Id
    \/ ById
    \/ ByLevel
    \/ Collapse
    \/ Straghten
    \/ Straighten
    \/ StraightenRoot
    \/ StraightenRecursive
    \/ CalcBoundaries
    \/ Graph

CoreSpec == Init /\ [][CoreNext]_vars

\* A client that stacks storeys by hand with deserialize and calls the
\* operations on storeys.
StoreyNext ==
    \/ NewQuad
    \/ Deserialize
    \/ AddAbove
    \/ DelAbove
    \/ CloneAbove
    \/ SwapAbove
    \/ Clone
    \/ Crossover

StoreySpec == Init /\ [][StoreyNext]_vars

\* A client that builds trees, detaches them with deserialize, reads ids and
\* divides, undivides and swaps.
IdNext ==
    \/ NewQuad
    \/ Deserialize
    \/ Divide
    \/ Undivide
    \/ Swap
    \/ ReadId

IdSpec == Init /\ [][IdNext]_vars

\* A client that builds quads and a Boundary by hand and queries it.
BoundaryNext ==
    \/ NewQuad
    \/ NewBoundary
    \/ AddEdges
    \/ Overlap
    \/ Coordinates
    \/ Pairs
    \/ PairsByLength

BoundarySpec == Init /\ [][BoundaryNext]_vars

\* A client of the Graph container.
GraphNext ==
    \/ GraphAddNode
    \/ GraphAddEdge
    \/ GraphSetEdgeProperties

GraphSpec == Init /\ [][GraphNext]_vars
====
